---------------------------- MODULE Spec2Model ----------------------------
(***************************************************************************)
(* SmartMeal: the recipe service (in-memory "mock" store variant of        *)
(* src/lib/services/recipe.service.ts, lines 386-1010), the ingredient     *)
(* conflict checker and the generate route.                                *)
(*                                                                         *)
(* Conventions of the model                                                *)
(*  - a JS string is a sequence of one-character strings;                  *)
(*  - "T | null" / "T | undefined" is a sequence of length 0 or 1;         *)
(*  - an ISO timestamp is the integer number of clock ticks (milliseconds) *)
(*    it denotes: toISOString is strictly monotone on them, so comparing   *)
(*    the integers is comparing the strings;                               *)
(*  - a recipe id is the text that the id template appends to its fixed    *)
(*    prefix "550e8400-e29b-41d4-a716-44665544000";                        *)
(*  - JS arrays are 1-based sequences, findIndex's -1 is 0.                *)
(*  - every service method first awaits a timer and then runs to its       *)
(*    return without another await: an action is that uninterrupted body.  *)
(***************************************************************************)
EXTENDS Integers, Sequences, FiniteSets, TLC

VARIABLES
    MOCK_RECIPES,       \* RecipeService.MOCK_RECIPES, the in-memory store
    mockRecipeCounter,  \* RecipeService.mockRecipeCounter
    clock,              \* the value new Date() returns now (ms)
    profiles,           \* profiles table: user -> stored avoidance list
    res,                \* the call that has just returned, with its result
    nOps,               \* number of create/update/delete calls made so far
    chkIngredients,     \* conflict checker: argument recipeIngredients
    chkProfile,         \* conflict checker: argument profile
    chkWarnings,        \* conflict checker: returned warnings (<<>> before)
    pending,            \* calls waiting at their await, in call order
    done                \* calls that have returned, in order of return

vars == <<MOCK_RECIPES, mockRecipeCounter, clock, profiles, res, nOps,
          chkIngredients, chkProfile, chkWarnings, pending, done>>

storeVars == <<MOCK_RECIPES, mockRecipeCounter, clock, profiles, res, nOps>>
chkVars == <<chkIngredients, chkProfile, chkWarnings>>
asyncVars == <<pending, done>>

---------------------------------------------------------------------------
(* Bounds of the exploration *)

MaxOps == 2         \* create/update/delete calls per run
MaxCounter == 6     \* createRecipe is explored while the counter is below
MaxClock == 5       \* the clock is explored up to this tick
MaxPage == 2        \* pages requested by getRecipes
MaxLimit == 2       \* page sizes requested by getRecipes
MaxLines == 2       \* ingredient lines handed to the conflict checker
MaxTerms == 2       \* avoided terms handed to the conflict checker

---------------------------------------------------------------------------
(* Values *)

Null == <<>>
Some(v) == <<v>>

DEFAULT_USER_ID == "default-user"
OTHER_USER_ID == "other-user"
Users == {DEFAULT_USER_ID, OTHER_USER_ID}

Sources == {"ai", "manual"}
NoSource == "undefined"

Min(S) == CHOOSE x \in S : \A y \in S : x <= y

DigitChar == <<"0", "1", "2", "3", "4", "5", "6", "7", "8", "9">>

RECURSIVE Digits(_)
Digits(n) ==
    IF n < 10 THEN <<DigitChar[n + 1]>>
    ELSE Digits(n \div 10) \o <<DigitChar[(n % 10) + 1]>>

\* `550e8400-e29b-41d4-a716-44665544000${counter}`, without the fixed prefix
IdOf(counter) == Digits(counter)

InitialCounter == 4

\* Texts of the seed data, abbreviated to their first letter; the service
\* copies, compares and orders them and never looks inside.
Str(c) == <<c>>

SeedRecipes ==
    << [id |-> IdOf(1), user_id |-> DEFAULT_USER_ID, title |-> Str("c"),
        ingredients |-> <<Str("s"), Str("p")>>,
        preparation_steps |-> <<Str("b")>>,
        source |-> "ai", created_at |-> 1, updated_at |-> 1],
       [id |-> IdOf(2), user_id |-> DEFAULT_USER_ID, title |-> Str("g"),
        ingredients |-> <<Str("c"), Str("m")>>,
        preparation_steps |-> <<Str("s")>>,
        source |-> "manual", created_at |-> 2, updated_at |-> 2],
       [id |-> IdOf(3), user_id |-> DEFAULT_USER_ID, title |-> Str("v"),
        ingredients |-> <<Str("b"), Str("r")>>,
        preparation_steps |-> <<Str("h")>>,
        source |-> "ai", created_at |-> 3, updated_at |-> 3] >>

---------------------------------------------------------------------------
(* RecipeService, mock store *)

\* mutant: the owner is not compared
findIndex_anyOwner(store, id, userId) ==
    LET m == {i \in 1..Len(store) : store[i].id = id}
    IN IF m = {} THEN 0 ELSE Min(m)

\* Array.prototype.findIndex with (r) => r.id === id && r.user_id === userId
findIndex(store, id, userId) ==
    LET m == {i \in 1..Len(store) :
                 store[i].id = id /\ store[i].user_id = userId}
    IN IF m = {} THEN 0 ELSE Min(m)

getRecipeById(store, id, userId) ==
    LET i == findIndex(store, id, userId)
    IN IF i = 0 THEN Null ELSE Some(store[i])

\* mutant: the counter is not incremented
createRecipe_sameCounter(store, counter, command, userId, t1, t2) ==
    LET newRecipe == [id |-> IdOf(counter),
                      user_id |-> userId,
                      title |-> command.title,
                      ingredients |-> command.ingredients,
                      preparation_steps |-> command.preparation_steps,
                      source |-> command.source,
                      created_at |-> t1,
                      updated_at |-> t2]
    IN [store |-> Append(store, newRecipe),
        counter |-> counter,
        result |-> newRecipe]

\* t1, t2: the values of the two new Date() calls of the object literal
createRecipe(store, counter, command, userId, t1, t2) ==
    LET newRecipe == [id |-> IdOf(counter),
                      user_id |-> userId,
                      title |-> command.title,
                      ingredients |-> command.ingredients,
                      preparation_steps |-> command.preparation_steps,
                      source |-> command.source,
                      created_at |-> t1,
                      updated_at |-> t2]
    IN [store |-> Append(store, newRecipe),
        counter |-> counter + 1,
        result |-> newRecipe]

\* mutant: the update also resets created_at
updateRecipe_touchesCreated(store, id, userId, command, now) ==
    LET recipeIndex == findIndex(store, id, userId)
    IN IF recipeIndex = 0
       THEN [store |-> store, result |-> Null]
       ELSE LET old == store[recipeIndex]
                updatedRecipe ==
                    [old EXCEPT
                       !.title = IF command.title # Null
                                 THEN command.title[1] ELSE @,
                       !.ingredients = IF command.ingredients # Null
                                       THEN command.ingredients[1] ELSE @,
                       !.preparation_steps =
                           IF command.preparation_steps # Null
                           THEN command.preparation_steps[1] ELSE @,
                       !.created_at = now,
                       !.updated_at = now]
            IN [store |-> [store EXCEPT ![recipeIndex] = updatedRecipe],
                result |-> Some(updatedRecipe)]

updateRecipe(store, id, userId, command, now) ==
    LET recipeIndex == findIndex(store, id, userId)
    IN IF recipeIndex = 0
       THEN [store |-> store, result |-> Null]
       ELSE LET old == store[recipeIndex]
                updatedRecipe ==
                    [old EXCEPT
                       !.title = IF command.title # Null
                                 THEN command.title[1] ELSE @,
                       !.ingredients = IF command.ingredients # Null
                                       THEN command.ingredients[1] ELSE @,
                       !.preparation_steps =
                           IF command.preparation_steps # Null
                           THEN command.preparation_steps[1] ELSE @,
                       !.updated_at = now]
            IN [store |-> [store EXCEPT ![recipeIndex] = updatedRecipe],
                result |-> Some(updatedRecipe)]

\* Array.prototype.splice(recipeIndex, 1)
splice1(store, i) ==
    [k \in 1..(Len(store) - 1) |-> IF k < i THEN store[k] ELSE store[k + 1]]

\* mutant: reports success without removing the recipe
deleteRecipe_keeps(store, id, userId) ==
    LET m == {i \in 1..Len(store) :
                 store[i].id = id /\ store[i].user_id = userId}
    IN [store |-> store, result |-> m # {}]

deleteRecipe(store, id, userId) ==
    LET recipeIndex == findIndex(store, id, userId)
    IN IF recipeIndex = 0
       THEN [store |-> store, result |-> FALSE]
       ELSE [store |-> splice1(store, recipeIndex), result |-> TRUE]

\* Order of the characters that occur in titles and ids (digits before
\* letters, as String.prototype.localeCompare orders them)
Collation ==
    <<"0", "1", "2", "3", "4", "5", "6", "7", "8", "9",
      "a", "b", "c", "d", "e", "f", "g", "h", "i", "j", "k", "l", "m",
      "n", "o", "p", "q", "r", "s", "t", "u", "v", "w", "x", "y", "z">>

CharRank(c) == CHOOSE i \in 1..Len(Collation) : Collation[i] = c

Sign(n) == IF n < 0 THEN -1 ELSE IF n > 0 THEN 1 ELSE 0

\* a.localeCompare(b) on strings over Collation
RECURSIVE localeCompare(_, _)
localeCompare(a, b) ==
    IF a = <<>> /\ b = <<>> THEN 0
    ELSE IF a = <<>> THEN -1
    ELSE IF b = <<>> THEN 1
    ELSE IF Head(a) # Head(b)
         THEN Sign(CharRank(Head(a)) - CharRank(Head(b)))
         ELSE localeCompare(Tail(a), Tail(b))

StringFields == {"id", "user_id", "title", "source", "created_at", "updated_at"}

\* aValue.localeCompare(bValue) for the string-valued field named sort
fieldCompare(a, b, sort) ==
    CASE sort \in {"created_at", "updated_at"} -> Sign(a[sort] - b[sort])
      [] sort \in {"title", "id"} -> localeCompare(a[sort], b[sort])
      [] sort \in {"source", "user_id"} ->
            IF a[sort] = b[sort] THEN 0
            ELSE IF a[sort] = "ai" \/ a[sort] = DEFAULT_USER_ID THEN -1 ELSE 1

\* mutant: the order parameter is ignored
sortComparator_ascOnly(a, b, sort, order) ==
    IF sort \in StringFields THEN fieldCompare(a, b, sort) ELSE 0

\* the comparator handed to filteredRecipes.sort
sortComparator(a, b, sort, order) ==
    IF sort \in StringFields
    THEN IF order = "asc" THEN fieldCompare(a, b, sort)
         ELSE fieldCompare(b, a, sort)
    ELSE 0

\* Array.prototype.sort: a stable sort by the comparator
RECURSIVE insertSorted(_, _, _, _)
insertSorted(sorted, x, sort, order) ==
    IF sorted = <<>> THEN <<x>>
    ELSE LET last == sorted[Len(sorted)]
         IN IF sortComparator(last, x, sort, order) <= 0
            THEN Append(sorted, x)
            ELSE Append(insertSorted(SubSeq(sorted, 1, Len(sorted) - 1),
                                     x, sort, order), last)

RECURSIVE sortRecipes(_, _, _)
sortRecipes(s, sort, order) ==
    IF s = <<>> THEN <<>>
    ELSE insertSorted(sortRecipes(SubSeq(s, 1, Len(s) - 1), sort, order),
                      s[Len(s)], sort, order)

\* Array.prototype.slice(start, end), 0-based, end exclusive
slice(s, start, end) ==
    LET e == IF end < Len(s) THEN end ELSE Len(s)
    IN IF start >= e THEN <<>> ELSE SubSeq(s, start + 1, e)

\* mutant: rounds down
ceilDiv_floor(a, b) == a \div b

\* Math.ceil(a / b) for integers a >= 0, b >= 1
ceilDiv(a, b) == (a + b - 1) \div b

\* mutant: the source filter is dropped
filterRecipes_anySource(store, userId, source) ==
    SelectSeq(store, LAMBDA recipe : recipe.user_id = userId)

\* "Filter by user and source": the two Array.prototype.filter calls
filterRecipes(store, userId, source) ==
    LET byUser == SelectSeq(store, LAMBDA recipe : recipe.user_id = userId)
    IN IF source # NoSource
       THEN SelectSeq(byUser, LAMBDA recipe : recipe.source = source)
       ELSE byUser

DefaultPage == 1
DefaultLimit == 20

\* params: page, limit are <<>> or <<n>>; sort, order, source are strings,
\* "undefined" when absent
getRecipes(store, userId, params) ==
    LET page == IF params.page = Null THEN DefaultPage ELSE params.page[1]
        limit == IF params.limit = Null THEN DefaultLimit ELSE params.limit[1]
        sort == IF params.sort = "undefined" THEN "created_at" ELSE params.sort
        order == IF params.order = "undefined" THEN "desc" ELSE params.order
        source == params.source
        filteredRecipes == filterRecipes(store, userId, source)
        sortedRecipes == sortRecipes(filteredRecipes, sort, order)
        offset == (page - 1) * limit
        paginatedRecipes == slice(sortedRecipes, offset, offset + limit)
        totalItems == Len(filteredRecipes)
        totalPages == ceilDiv(totalItems, limit)
    IN [recipes |-> paginatedRecipes,
        pagination |-> [page |-> page,
                        limit |-> limit,
                        total_items |-> totalItems,
                        total_pages |-> totalPages,
                        has_next |-> page < totalPages,
                        has_previous |-> page > 1]]

---------------------------------------------------------------------------
(* Strings *)

Upper ==
    <<"A", "B", "C", "D", "E", "F", "G", "H", "I", "J", "K", "L", "M",
      "N", "O", "P", "Q", "R", "S", "T", "U", "V", "W", "X", "Y", "Z">>

Lower ==
    <<"a", "b", "c", "d", "e", "f", "g", "h", "i", "j", "k", "l", "m",
      "n", "o", "p", "q", "r", "s", "t", "u", "v", "w", "x", "y", "z">>

Range(f) == {f[i] : i \in DOMAIN f}

\* String.prototype.toLowerCase
toLowerChar(c) ==
    IF c \in Range(Upper)
    THEN Lower[CHOOSE i \in 1..Len(Upper) : Upper[i] = c]
    ELSE c

toLowerCase(str) == [i \in 1..Len(str) |-> toLowerChar(str[i])]

\* String.prototype.includes
includes(str, search) ==
    \E k \in 0..(Len(str) - Len(search)) :
        SubSeq(str, k + 1, k + Len(search)) = search

WhiteSpace == {" "}

\* String.prototype.trim
RECURSIVE trimStart(_)
trimStart(str) ==
    IF str # <<>> /\ Head(str) \in WhiteSpace THEN trimStart(Tail(str))
    ELSE str

RECURSIVE trimEnd(_)
trimEnd(str) ==
    IF str # <<>> /\ str[Len(str)] \in WhiteSpace
    THEN trimEnd(SubSeq(str, 1, Len(str) - 1))
    ELSE str

trim(str) == trimEnd(trimStart(str))

---------------------------------------------------------------------------
(* RecipeService.checkIngredientsAgainstProfile *)

warningFor(avoidIngredient) ==
    [type |-> "ingredient_to_avoid",
     message |-> <<"This recipe contains '", avoidIngredient,
                   "' which is in your ingredients to avoid list">>,
     ingredient |-> avoidIngredient]

\* mutant: the ingredient line is compared without being lowercased
warningsOfLine_caseSensitive(ingredient, ingredientsToAvoid) ==
    LET hits == {j \in 1..Len(ingredientsToAvoid) :
                    includes(ingredient, ingredientsToAvoid[j])}
    IN IF hits = {} THEN <<>>
       ELSE <<warningFor(ingredientsToAvoid[Min(hits)])>>

\* mutant: no break, one warning per avoided term the line includes
warningsOfLine_noBreak(ingredient, ingredientsToAvoid) ==
    LET ingredientLower == toLowerCase(ingredient)
    IN SelectSeq([j \in 1..Len(ingredientsToAvoid) |->
                     warningFor(ingredientsToAvoid[j])],
                 LAMBDA w : includes(ingredientLower, w.ingredient))

\* mutant: the loop runs to the end, the last matching term is reported
warningsOfLine_lastTerm(ingredient, ingredientsToAvoid) ==
    LET ingredientLower == toLowerCase(ingredient)
        hits == {j \in 1..Len(ingredientsToAvoid) :
                    includes(ingredientLower, ingredientsToAvoid[j])}
    IN IF hits = {} THEN <<>>
       ELSE <<warningFor(ingredientsToAvoid[
                  CHOOSE j \in hits : \A k \in hits : k <= j])>>

\* the inner loop: the warning pushed for one ingredient line, if any;
\* the loop breaks at the first avoided term the line includes
warningsOfLine(ingredient, ingredientsToAvoid) ==
    LET ingredientLower == toLowerCase(ingredient)
        hits == {j \in 1..Len(ingredientsToAvoid) :
                    includes(ingredientLower, ingredientsToAvoid[j])}
    IN IF hits = {} THEN <<>>
       ELSE <<warningFor(ingredientsToAvoid[Min(hits)])>>

\* the outer loop over recipeIngredients
RECURSIVE warningsOfLines(_, _)
warningsOfLines(recipeIngredients, ingredientsToAvoid) ==
    IF recipeIngredients = <<>> THEN <<>>
    ELSE warningsOfLine(Head(recipeIngredients), ingredientsToAvoid)
         \o warningsOfLines(Tail(recipeIngredients), ingredientsToAvoid)

\* profile.ingredients_to_avoid is <<>> (null) or <<list>>
checkIngredientsAgainstProfile(recipeIngredients, profile) ==
    IF profile.ingredients_to_avoid = Null
       \/ Len(profile.ingredients_to_avoid[1]) = 0
    THEN <<>>
    ELSE LET ingredientsToAvoid ==
                 [j \in 1..Len(profile.ingredients_to_avoid[1]) |->
                     toLowerCase(profile.ingredients_to_avoid[1][j])]
         IN warningsOfLines(recipeIngredients, ingredientsToAvoid)

---------------------------------------------------------------------------
(* AIService *)

MockIngredient1 ==
    <<"2", " ", "c", "u", "p", "s", " ", "m", "a", "i", "n", " ", "i",
      "n", "g", "r", "e", "d", "i", "e", "n", "t">>

MockIngredient2 ==
    <<"1", " ", "c", "u", "p", " ", "s", "e", "c", "o", "n", "d", "a",
      "r", "y", " ", "i", "n", "g", "r", "e", "d", "i", "e", "n", "t">>

MockIngredient3 ==
    <<"3", " ", "t", "a", "b", "l", "e", "s", "p", "o", "o", "n", "s",
      " ", "s", "e", "a", "s", "o", "n", "i", "n", "g">>

MockIngredient4 ==
    <<"S", "a", "l", "t", " ", "a", "n", "d", " ", "p", "e", "p", "p",
      "e", "r", " ", "t", "o", " ", "t", "a", "s", "t", "e">>

TitlePrefix ==
    <<"D", "e", "l", "i", "c", "i", "o", "u", "s", " ">>

TitleSuffix ==
    <<" ", "R", "e", "c", "i", "p", "e">>

\* AIService.MOCK_RECIPE; the seven preparation steps are abbreviated to
\* their first letter, they are only copied into the response
MOCK_RECIPE ==
    [title |-> TitlePrefix \o <<"M", "i", "x", "e", "d">> \o TitleSuffix,
     ingredients |-> <<MockIngredient1, MockIngredient2, MockIngredient3,
                       MockIngredient4>>,
     preparation_steps |-> <<Str("P"), Str("H"), Str("A"), Str("A"),
                             Str("C"), Str("S"), Str("S")>>]

SliceLimit == 100

\* the characters the regular expression [^\w\s,.-] does not remove
AllowedChars ==
    Range(Upper) \cup Range(Lower) \cup Range(DigitChar)
    \cup {"_"} \cup WhiteSpace \cup {",", ".", "-"}

\* mutant: no character is removed
sanitizeIngredient_noFilter(ingredient) ==
    slice(trim(ingredient), 0, SliceLimit)

sanitizeIngredient(ingredient) ==
    SelectSeq(slice(trim(ingredient), 0, SliceLimit),
              LAMBDA c : c \in AllowedChars)

sanitizeIngredients(ingredients) ==
    [i \in 1..Len(ingredients) |-> sanitizeIngredient(ingredients[i])]

GenerationError == "Failed to generate recipe. Please try again later."

\* mutant: the catch block rethrows what it caught
generateRecipe_rethrows(ingredients, adapterThrows) ==
    IF adapterThrows
    THEN [thrown |-> TRUE, message |-> "OpenRouter API error"]
    ELSE [thrown |-> FALSE,
          value |-> [MOCK_RECIPE EXCEPT
                       !.title = TitlePrefix \o ingredients[1]
                                 \o TitleSuffix]]

\* adapterThrows: whether a statement of the try block throws (the call to
\* the generation service of the final implementation); the catch block
\* replaces whatever was thrown by GenerationError
generateRecipe(ingredients, adapterThrows) ==
    IF adapterThrows
    THEN [thrown |-> TRUE, message |-> GenerationError]
    ELSE [thrown |-> FALSE,
          value |-> [MOCK_RECIPE EXCEPT
                       !.title = TitlePrefix \o ingredients[1]
                                 \o TitleSuffix]]

\* mutant: a failed generation is attempted a second time
generateRecipeWithWarnings_retries(ingredients, userId, adapterThrows) ==
    LET sanitizedIngredients == sanitizeIngredients(ingredients)
        recipe == generateRecipe(sanitizedIngredients, adapterThrows)
    IN IF recipe.thrown
       THEN [thrown |-> TRUE, message |-> recipe.message,
             calls |-> <<sanitizedIngredients, sanitizedIngredients>>]
       ELSE [thrown |-> FALSE,
             value |-> [recipe |-> recipe.value, warnings |-> <<>>],
             calls |-> <<sanitizedIngredients>>]

\* RecipeService.generateRecipeWithWarnings, mock mode: the profile is not
\* read and the warnings are the empty list; the catch block rethrows
\* calls: the arguments of the calls to aiService.generateRecipe, in order
generateRecipeWithWarnings(ingredients, userId, adapterThrows) ==
    LET sanitizedIngredients == sanitizeIngredients(ingredients)
        recipe == generateRecipe(sanitizedIngredients, adapterThrows)
    IN IF recipe.thrown
       THEN [thrown |-> TRUE, message |-> recipe.message,
             calls |-> <<sanitizedIngredients>>]
       ELSE [thrown |-> FALSE,
             value |-> [recipe |-> recipe.value, warnings |-> <<>>],
             calls |-> <<sanitizedIngredients>>]

---------------------------------------------------------------------------
(* Routes: /api/recipes/:id and /api/recipes/generate *)

createErrorResponse(status, error, message) ==
    [status |-> status, body |-> [error |-> error, message |-> message]]

\* GET /api/recipes/:id after the service call returned
GET_response(recipe) ==
    IF recipe = Null
    THEN createErrorResponse(404, "Not found", "Recipe not found")
    ELSE [status |-> 200, body |-> recipe[1]]

\* PATCH /api/recipes/:id after the service call returned
PATCH_response(recipe) ==
    IF recipe = Null
    THEN createErrorResponse(404, "Not found", "Recipe not found")
    ELSE [status |-> 200, body |-> recipe[1]]

\* DELETE /api/recipes/:id after the service call returned
DELETE_response(deleted) ==
    IF ~deleted
    THEN createErrorResponse(404, "Not found", "Recipe not found")
    ELSE [status |-> 200,
          body |-> [success |-> TRUE,
                    message |-> "Recipe deleted successfully"]]

MinGenerateIngredients == 3

\* mutant: two ingredients are enough
generateRecipeSchema_min2(body) ==
    LET trimmed == [i \in 1..Len(body.ingredients) |->
                       trim(body.ingredients[i])]
    IN IF /\ \A i \in 1..Len(trimmed) : Len(trimmed[i]) >= 1
          /\ Len(trimmed) >= 2
       THEN [success |-> TRUE, data |-> [ingredients |-> trimmed]]
       ELSE [success |-> FALSE]

\* generateRecipeSchema.safeParse on a body whose ingredients are strings
generateRecipeSchema(body) ==
    LET trimmed == [i \in 1..Len(body.ingredients) |->
                       trim(body.ingredients[i])]
    IN IF /\ \A i \in 1..Len(trimmed) : Len(trimmed[i]) >= 1
          /\ Len(trimmed) >= MinGenerateIngredients
       THEN [success |-> TRUE, data |-> [ingredients |-> trimmed]]
       ELSE [success |-> FALSE]

\* POST /api/recipes/generate; body is <<>> when the JSON does not parse
POST_generate_response(body, adapterThrows) ==
    IF body = Null
    THEN createErrorResponse(400, "Bad request",
                             "Invalid JSON in request body")
    ELSE LET validation == generateRecipeSchema(body[1])
         IN IF ~validation.success
            THEN createErrorResponse(400, "Validation failed",
                                     "Invalid request data")
            ELSE LET result == generateRecipeWithWarnings(
                                   validation.data.ingredients,
                                   DEFAULT_USER_ID, adapterThrows)
                 IN IF ~result.thrown
                    THEN [status |-> 200, body |-> result.value]
                    ELSE IF result.message = GenerationError
                    THEN createErrorResponse(503,
                             "Service temporarily unavailable",
                             "The recipe generation service is currently unavailable. Please try again later.")
                    ELSE createErrorResponse(500, "Internal server error",
                             "An unexpected error occurred")

\* the arguments POST /api/recipes/generate hands to
\* aiService.generateRecipe, in order (none when the request is rejected)
POST_generate_calls(body, adapterThrows) ==
    IF body = Null THEN <<>>
    ELSE LET validation == generateRecipeSchema(body[1])
         IN IF ~validation.success THEN <<>>
            ELSE generateRecipeWithWarnings(validation.data.ingredients,
                                            DEFAULT_USER_ID,
                                            adapterThrows).calls

---------------------------------------------------------------------------
(* Validation schemas of the recipe routes *)

MaxTitleLength == 255
LimitCeiling == 100

trimAll(strings) == [i \in 1..Len(strings) |-> trim(strings[i])]

\* z.string().trim().min(1).max(255)
titleSchema(title) ==
    Len(trim(title)) >= 1 /\ Len(trim(title)) <= MaxTitleLength

\* z.array(z.string().trim().min(1)).min(1)
stringListSchema(strings) ==
    /\ Len(strings) >= 1
    /\ \A i \in 1..Len(strings) : Len(trim(strings[i])) >= 1

\* mutant: the lengths are checked before the strings are trimmed
createRecipeSchema_trimsLast(body) ==
    IF /\ Len(body.title) >= 1 /\ Len(body.title) <= MaxTitleLength
       /\ Len(body.ingredients) >= 1
       /\ \A i \in 1..Len(body.ingredients) : Len(body.ingredients[i]) >= 1
       /\ Len(body.preparation_steps) >= 1
       /\ \A i \in 1..Len(body.preparation_steps) :
              Len(body.preparation_steps[i]) >= 1
       /\ body.source \in Sources
    THEN [success |-> TRUE,
          data |-> [title |-> trim(body.title),
                    ingredients |-> trimAll(body.ingredients),
                    preparation_steps |-> trimAll(body.preparation_steps),
                    source |-> body.source]]
    ELSE [success |-> FALSE]

\* createRecipeSchema.safeParse on a body that has the four keys
createRecipeSchema(body) ==
    IF /\ titleSchema(body.title)
       /\ stringListSchema(body.ingredients)
       /\ stringListSchema(body.preparation_steps)
       /\ body.source \in Sources
    THEN [success |-> TRUE,
          data |-> [title |-> trim(body.title),
                    ingredients |-> trimAll(body.ingredients),
                    preparation_steps |-> trimAll(body.preparation_steps),
                    source |-> body.source]]
    ELSE [success |-> FALSE]

\* mutant: the refinement "at least one field" is dropped
updateRecipeSchema_noRefine(body) ==
    IF /\ body.title # Null => titleSchema(body.title[1])
       /\ body.ingredients # Null => stringListSchema(body.ingredients[1])
       /\ body.preparation_steps # Null
             => stringListSchema(body.preparation_steps[1])
    THEN [success |-> TRUE,
          data |-> [title |-> IF body.title = Null THEN Null
                              ELSE Some(trim(body.title[1])),
                    ingredients |->
                        IF body.ingredients = Null THEN Null
                        ELSE Some(trimAll(body.ingredients[1])),
                    preparation_steps |->
                        IF body.preparation_steps = Null THEN Null
                        ELSE Some(trimAll(body.preparation_steps[1]))]]
    ELSE [success |-> FALSE]

\* updateRecipeSchema.safeParse; each key of body is <<>> when absent.  The
\* parsed data holds the three declared keys only: z.object strips others.
updateRecipeSchema(body) ==
    IF /\ body.title # Null => titleSchema(body.title[1])
       /\ body.ingredients # Null => stringListSchema(body.ingredients[1])
       /\ body.preparation_steps # Null
             => stringListSchema(body.preparation_steps[1])
       /\ \/ body.title # Null
          \/ body.ingredients # Null
          \/ body.preparation_steps # Null
    THEN [success |-> TRUE,
          data |-> [title |-> IF body.title = Null THEN Null
                              ELSE Some(trim(body.title[1])),
                    ingredients |->
                        IF body.ingredients = Null THEN Null
                        ELSE Some(trimAll(body.ingredients[1])),
                    preparation_steps |->
                        IF body.preparation_steps = Null THEN Null
                        ELSE Some(trimAll(body.preparation_steps[1]))]]
    ELSE [success |-> FALSE]

DigitValue(c) == (CHOOSE i \in 1..Len(DigitChar) : DigitChar[i] = c) - 1

RECURSIVE DecimalValue(_)
DecimalValue(digits) ==
    IF digits = <<>> THEN 0
    ELSE DecimalValue(SubSeq(digits, 1, Len(digits) - 1)) * 10
         + DigitValue(digits[Len(digits)])

AllDigits(str) == \A k \in 1..Len(str) : str[k] \in Range(DigitChar)

\* z.coerce.number(): Number(value) of a query-string value.  White space
\* is trimmed and the empty string is 0; a signed decimal literal is its
\* value, here an integer or "a fraction"; every other text is NaN (texts
\* with an exponent, a radix prefix or "Infinity" are not among the inputs).
coerceNumber(value) ==
    LET t == trim(value)
        signed == t # <<>> /\ t[1] \in {"-", "+"}
        u == IF signed THEN Tail(t) ELSE t
        dots == {k \in 1..Len(u) : u[k] = "."}
        intPart == IF dots = {} THEN u ELSE SubSeq(u, 1, Min(dots) - 1)
        fracPart == IF dots = {} THEN <<>>
                    ELSE SubSeq(u, Min(dots) + 1, Len(u))
    IN IF t = <<>> THEN [kind |-> "integer", value |-> 0]
       ELSE IF \/ ~AllDigits(intPart)
               \/ ~AllDigits(fracPart)
               \/ (intPart = <<>> /\ fracPart = <<>>)
       THEN [kind |-> "NaN"]
       ELSE IF \E k \in 1..Len(fracPart) : fracPart[k] # "0"
       THEN [kind |-> "fraction"]
       ELSE [kind |-> "integer",
             value |-> IF t[1] = "-" THEN 0 - DecimalValue(intPart)
                       ELSE DecimalValue(intPart)]

\* .int().positive()
positiveInt(n) == n.kind = "integer" /\ n.value > 0

\* the object GET /api/recipes builds from the URL: an absent page or limit
\* becomes the number 1 or 20, an absent sort or order its default
queryParamsOf(query) ==
    [page |-> IF query.page = Null
              THEN [kind |-> "integer", value |-> DefaultPage]
              ELSE coerceNumber(query.page[1]),
     limit |-> IF query.limit = Null
               THEN [kind |-> "integer", value |-> DefaultLimit]
               ELSE coerceNumber(query.limit[1]),
     sort |-> IF query.sort = "undefined" THEN "created_at" ELSE query.sort,
     order |-> IF query.order = "undefined" THEN "desc" ELSE query.order,
     source |-> query.source]

\* mutant: a limit above the ceiling is replaced by the ceiling
recipeQuerySchema_clamps(queryParams) ==
    IF /\ positiveInt(queryParams.page)
       /\ positiveInt(queryParams.limit)
       /\ queryParams.order \in {"asc", "desc"}
       /\ queryParams.source \in Sources \cup {NoSource}
    THEN [success |-> TRUE,
          data |-> [page |-> Some(queryParams.page.value),
                    limit |-> Some(IF queryParams.limit.value > LimitCeiling
                                   THEN LimitCeiling
                                   ELSE queryParams.limit.value),
                    sort |-> queryParams.sort,
                    order |-> queryParams.order,
                    source |-> queryParams.source]]
    ELSE [success |-> FALSE]

\* recipeQuerySchema.safeParse; sort is any string
recipeQuerySchema(queryParams) ==
    IF /\ positiveInt(queryParams.page)
       /\ positiveInt(queryParams.limit)
       /\ queryParams.limit.value <= LimitCeiling
       /\ queryParams.order \in {"asc", "desc"}
       /\ queryParams.source \in Sources \cup {NoSource}
    THEN [success |-> TRUE,
          data |-> [page |-> Some(queryParams.page.value),
                    limit |-> Some(queryParams.limit.value),
                    sort |-> queryParams.sort,
                    order |-> queryParams.order,
                    source |-> queryParams.source]]
    ELSE [success |-> FALSE]

HexDigits ==
    Range(DigitChar) \cup {"a", "b", "c", "d", "e", "f"}
    \cup {"A", "B", "C", "D", "E", "F"}

\* mutant: every identifier is accepted
uuidParamSchema_any(id) == [success |-> TRUE, data |-> [id |-> id]]

\* uuidParamSchema.safeParse on the fixed prefix followed by id: the last
\* group of a UUID has 12 hexadecimal digits, of which the prefix holds 11
uuidParamSchema(id) ==
    IF Len(id) = 1 /\ id[1] \in HexDigits
    THEN [success |-> TRUE, data |-> [id |-> id]]
    ELSE [success |-> FALSE]

---------------------------------------------------------------------------
(* Routes: /api/recipes and /api/recipes/:id, request to response *)

\* Each handler yields the response, the RecipeService calls it made
\* (calls) and the store after it.

BadRequest ==
    createErrorResponse(400, "Bad request", "Invalid JSON in request body")

InvalidId ==
    createErrorResponse(400, "Validation failed", "Invalid recipe ID format")

\* POST /api/recipes; body is <<>> when the JSON does not parse
POST_recipes(store, counter, body, t1, t2) ==
    IF body = Null
    THEN [response |-> BadRequest, calls |-> <<>>,
          store |-> store, counter |-> counter]
    ELSE LET validation == createRecipeSchema(body[1])
         IN IF ~validation.success
            THEN [response |-> createErrorResponse(400, "Validation failed",
                                                   "Invalid request data"),
                  calls |-> <<>>, store |-> store, counter |-> counter]
            ELSE LET r == createRecipe(store, counter, validation.data,
                                       DEFAULT_USER_ID, t1, t2)
                 IN [response |-> [status |-> 201, body |-> r.result],
                     calls |-> <<[method |-> "createRecipe",
                                  command |-> validation.data]>>,
                     store |-> r.store, counter |-> r.counter]

\* GET /api/recipes
GET_recipes(store, query) ==
    LET validation == recipeQuerySchema(queryParamsOf(query))
    IN IF ~validation.success
       THEN [response |-> createErrorResponse(400, "Validation failed",
                                              "Invalid query parameters"),
             calls |-> <<>>]
       ELSE [response |-> [status |-> 200,
                           body |-> getRecipes(store, DEFAULT_USER_ID,
                                               validation.data)],
             calls |-> <<[method |-> "getRecipes",
                          params |-> validation.data]>>]

\* GET /api/recipes/:id
GET_id(store, id) ==
    LET paramValidation == uuidParamSchema(id)
    IN IF ~paramValidation.success
       THEN [response |-> InvalidId, calls |-> <<>>]
       ELSE [response |-> GET_response(
                              getRecipeById(store, paramValidation.data.id,
                                            DEFAULT_USER_ID)),
             calls |-> <<[method |-> "getRecipeById",
                          id |-> paramValidation.data.id]>>]

\* PATCH /api/recipes/:id; body is <<>> when the JSON does not parse
PATCH_id(store, id, body, now) ==
    LET paramValidation == uuidParamSchema(id)
    IN IF ~paramValidation.success
       THEN [response |-> InvalidId, calls |-> <<>>, store |-> store]
       ELSE IF body = Null
       THEN [response |-> BadRequest, calls |-> <<>>, store |-> store]
       ELSE LET validation == updateRecipeSchema(body[1])
            IN IF ~validation.success
               THEN [response |->
                         createErrorResponse(400, "Validation failed",
                                             "Invalid request data"),
                     calls |-> <<>>, store |-> store]
               ELSE LET r == updateRecipe(store, paramValidation.data.id,
                                          DEFAULT_USER_ID, validation.data,
                                          now)
                    IN [response |-> PATCH_response(r.result),
                        calls |-> <<[method |-> "updateRecipe",
                                     id |-> paramValidation.data.id,
                                     command |-> validation.data]>>,
                        store |-> r.store]

\* DELETE /api/recipes/:id
DELETE_id(store, id) ==
    LET paramValidation == uuidParamSchema(id)
    IN IF ~paramValidation.success
       THEN [response |-> InvalidId, calls |-> <<>>, store |-> store]
       ELSE LET r == deleteRecipe(store, paramValidation.data.id,
                                  DEFAULT_USER_ID)
            IN [response |-> DELETE_response(r.result),
                calls |-> <<[method |-> "deleteRecipe",
                             id |-> paramValidation.data.id]>>,
                store |-> r.store]

---------------------------------------------------------------------------
(* Inputs explored *)

Titles == {Str("a"), Str("b")}
NewIngredients == <<Str("e"), Str("f")>>
NewSteps == <<Str("m")>>

CreateCommands ==
    {[title |-> Str("a"), ingredients |-> NewIngredients,
      preparation_steps |-> NewSteps, source |-> "ai"],
     [title |-> Str("b"), ingredients |-> NewIngredients,
      preparation_steps |-> NewSteps, source |-> "manual"]}

\* every non-empty subset of {title, ingredients, preparation_steps}
UpdateCommands ==
    {c \in [title : {Null} \cup {Some(t) : t \in Titles},
            ingredients : {Null, Some(NewIngredients)},
            preparation_steps : {Null, Some(NewSteps)}] :
        /\ c.title # Null \/ c.ingredients # Null
           \/ c.preparation_steps # Null
        /\ c.title = Some(Str("a")) =>
              c.ingredients = Null /\ c.preparation_steps = Null}

Ids == {IdOf(n) : n \in 1..MaxCounter}

ListParams ==
    {[page |-> Some(p), limit |-> Some(l), sort |-> "undefined",
      order |-> "undefined", source |-> src] :
        p \in 1..MaxPage, l \in 1..MaxLimit, src \in {NoSource, "ai"}}
    \cup {[page |-> Null, limit |-> Null, sort |-> "title",
           order |-> "asc", source |-> "manual"],
          [page |-> Null, limit |-> Null, sort |-> "undefined",
           order |-> "undefined", source |-> NoSource]}

\* one character more than sanitizeIngredients keeps
LongIngredient == <<"!">> \o [i \in 1..SliceLimit |-> "a"]

GenerateBodies ==
    {Null,
     Some([ingredients |-> <<Str("a"), Str("b"), Str("c")>>]),
     Some([ingredients |-> <<<<" ", "a", "!">>, Str("b"), Str("c"),
                             Str("d")>>]),
     Some([ingredients |-> <<Str("a"), Str("b")>>]),
     Some([ingredients |-> <<Str("a"), Str(" "), Str("c")>>]),
     Some([ingredients |-> <<LongIngredient, Str("b"), Str("c")>>]),
     Some([ingredients |-> <<Str("!"), Str("b"), Str("c")>>])}

Salt == <<"s", "a", "l", "t">>

\* the profiles table: the default user's avoidance list is empty or holds
\* one term, the other user has no profile row
ProfileTables ==
    {[u \in Users |->
        IF u = DEFAULT_USER_ID
        THEN Some([ingredients_to_avoid |-> Some(avoid)])
        ELSE Null] : avoid \in {<<>>, <<Salt>>}}

\* the default user avoids "salt"
SaltProfiles ==
    [u \in Users |->
        IF u = DEFAULT_USER_ID
        THEN Some([ingredients_to_avoid |-> Some(<<Salt>>)])
        ELSE Null]

NoCall == [op |-> "none"]

---------------------------------------------------------------------------
(* Actions: one per service method and route *)

CreateRecipe(command, userId) ==
    /\ nOps < MaxOps
    /\ mockRecipeCounter < MaxCounter
    /\ \E t2 \in {clock, clock + 1} :
          /\ t2 <= MaxClock
          /\ LET r == createRecipe(MOCK_RECIPES, mockRecipeCounter, command,
                                   userId, clock, t2)
             IN /\ MOCK_RECIPES' = r.store
                /\ mockRecipeCounter' = r.counter
                /\ res' = [op |-> "create", userId |-> userId,
                           command |-> command, result |-> r.result]
          /\ clock' = t2
    /\ nOps' = nOps + 1
    /\ UNCHANGED <<profiles, chkVars, asyncVars>>

\* mutant: the store itself is sorted, not a filtered copy
GetRecipes_sortsStore(userId, params) ==
    /\ res' = [op |-> "list", userId |-> userId, params |-> params,
               result |-> getRecipes(MOCK_RECIPES, userId, params)]
    /\ MOCK_RECIPES' =
          sortRecipes(MOCK_RECIPES,
                      IF params.sort = "undefined" THEN "created_at"
                      ELSE params.sort,
                      IF params.order = "undefined" THEN "desc"
                      ELSE params.order)
    /\ UNCHANGED <<mockRecipeCounter, clock, profiles, nOps, chkVars,
                   asyncVars>>

GetRecipes(userId, params) ==
    /\ res' = [op |-> "list", userId |-> userId, params |-> params,
               result |-> getRecipes(MOCK_RECIPES, userId, params)]
    /\ UNCHANGED <<MOCK_RECIPES, mockRecipeCounter, clock, profiles, nOps,
                   chkVars, asyncVars>>

GetRecipeById(id, userId) ==
    /\ res' = [op |-> "get", userId |-> userId, id |-> id,
               result |-> getRecipeById(MOCK_RECIPES, id, userId)]
    /\ UNCHANGED <<MOCK_RECIPES, mockRecipeCounter, clock, profiles, nOps,
                   chkVars, asyncVars>>

UpdateRecipe(id, userId, command) ==
    /\ nOps < MaxOps
    /\ LET r == updateRecipe(MOCK_RECIPES, id, userId, command, clock)
       IN /\ MOCK_RECIPES' = r.store
          /\ res' = [op |-> "update", userId |-> userId, id |-> id,
                     command |-> command, result |-> r.result]
    /\ nOps' = nOps + 1
    /\ UNCHANGED <<mockRecipeCounter, clock, profiles, chkVars, asyncVars>>

DeleteRecipe(id, userId) ==
    /\ nOps < MaxOps
    /\ LET r == deleteRecipe(MOCK_RECIPES, id, userId)
       IN /\ MOCK_RECIPES' = r.store
          /\ res' = [op |-> "delete", userId |-> userId, id |-> id,
                     result |-> r.result]
    /\ nOps' = nOps + 1
    /\ UNCHANGED <<mockRecipeCounter, clock, profiles, chkVars, asyncVars>>

\* mutant: a generated draft is stored
POST_generate_persists(body, adapterThrows) ==
    LET response == POST_generate_response(body, adapterThrows)
    IN /\ res' = [op |-> "generate", userId |-> DEFAULT_USER_ID,
                  body |-> body, adapterThrows |-> adapterThrows,
                  calls |-> POST_generate_calls(body, adapterThrows),
                  result |-> response]
       /\ MOCK_RECIPES' =
             IF response.status = 200
             THEN Append(MOCK_RECIPES,
                         [id |-> IdOf(mockRecipeCounter),
                          user_id |-> DEFAULT_USER_ID,
                          title |-> response.body.recipe.title,
                          ingredients |-> response.body.recipe.ingredients,
                          preparation_steps |->
                              response.body.recipe.preparation_steps,
                          source |-> "ai",
                          created_at |-> clock, updated_at |-> clock])
             ELSE MOCK_RECIPES
       /\ UNCHANGED <<mockRecipeCounter, clock, profiles, nOps, chkVars,
                      asyncVars>>

POST_generate(body, adapterThrows) ==
    /\ res' = [op |-> "generate", userId |-> DEFAULT_USER_ID,
               body |-> body, adapterThrows |-> adapterThrows,
               calls |-> POST_generate_calls(body, adapterThrows),
               result |-> POST_generate_response(body, adapterThrows)]
    /\ UNCHANGED <<MOCK_RECIPES, mockRecipeCounter, clock, profiles, nOps,
                   chkVars, asyncVars>>

\* a millisecond passes
Tick ==
    /\ clock < MaxClock
    /\ clock' = clock + 1
    /\ res' = NoCall
    /\ UNCHANGED <<MOCK_RECIPES, mockRecipeCounter, profiles, nOps, chkVars,
                   asyncVars>>

Init ==
    /\ MOCK_RECIPES = SeedRecipes
    /\ mockRecipeCounter = InitialCounter
    /\ clock = 4
    /\ profiles = SaltProfiles
    /\ res = NoCall
    /\ nOps = 0
    /\ chkIngredients = <<>>
    /\ chkProfile = Null
    /\ chkWarnings = Null
    /\ pending = <<>>
    /\ done = <<>>

Create == \E command \in CreateCommands, userId \in Users :
              CreateRecipe(command, userId)

Get == \E id \in Ids, userId \in Users : GetRecipeById(id, userId)

Update == \E id \in Ids, userId \in Users, command \in UpdateCommands :
              UpdateRecipe(id, userId, command)

Delete == \E id \in Ids, userId \in Users : DeleteRecipe(id, userId)

List == \E userId \in Users, params \in ListParams :
            GetRecipes(userId, params)

Generate == \E body \in GenerateBodies, adapterThrows \in BOOLEAN :
                POST_generate(body, adapterThrows)

\* The store under create, get, update and delete.  getRecipes and the
\* generate route write nothing but res (ListSpec, GenSpec), so leaving
\* them out here loses no state of the store.
Next == Create \/ Get \/ Update \/ Delete \/ Tick

Spec == Init /\ [][Next]_vars

\* The store under create, delete and list
NextList == Create \/ Delete \/ List \/ Tick

ListSpec == Init /\ [][NextList]_vars

\* The generate route, with create as the only way to store a draft
NextGen == Generate \/ Create \/ Get \/ Tick

InitGen ==
    /\ MOCK_RECIPES = SeedRecipes
    /\ mockRecipeCounter = InitialCounter
    /\ clock = 4
    /\ profiles \in ProfileTables
    /\ res = NoCall
    /\ nOps = 0
    /\ chkIngredients = <<>>
    /\ chkProfile = Null
    /\ chkWarnings = Null
    /\ pending = <<>>
    /\ done = <<>>

GenSpec == InitGen /\ [][NextGen]_vars

---------------------------------------------------------------------------
(* The routes of /api/recipes and /api/recipes/:id over the mock store *)

LongTitle == [i \in 1..(MaxTitleLength + 1) |-> "a"]

\* request bodies of POST /api/recipes; <<>> is a body that is not JSON
PostBodies ==
    {Null}
    \cup {Some([title |-> t, ingredients |-> NewIngredients,
                preparation_steps |-> NewSteps, source |-> "ai"]) :
             t \in {Str("a"), <<" ", "b", " ">>, <<>>, Str(" "),
                    LongTitle}}
    \cup {Some([title |-> Str("a"), ingredients |-> i,
                preparation_steps |-> p, source |-> src]) :
             i \in {NewIngredients, <<>>, <<Str("e"), Str(" ")>>},
             p \in {NewSteps, <<>>},
             src \in {"manual", "bogus"}}

\* request bodies of PATCH /api/recipes/:id; source is a key that is not
\* part of the schema
PatchBodies ==
    {Null}
    \cup {Some([title |-> t, ingredients |-> Null,
                preparation_steps |-> p, source |-> src]) :
             t \in {Null, Some(Str("b")), Some(Str(" "))},
             p \in {Null, Some(NewSteps), Some(<<Str(" ")>>)},
             src \in {Null, Some("manual")}}
    \cup {Some([title |-> Null, ingredients |-> i,
                preparation_steps |-> Null, source |-> Null]) :
             i \in {Some(NewIngredients), Some(<<>>)}}

\* the :id parameter, without the fixed prefix: a seed recipe, the first
\* created recipe, and two texts that are not the end of a UUID
RouteIds == {IdOf(1), IdOf(InitialCounter), Str("z"), <<"1", "0">>}

NoParams ==
    [page |-> Null, limit |-> Null, sort |-> "undefined",
     order |-> "undefined", source |-> NoSource]

\* query strings of GET /api/recipes
Queries ==
    {[NoParams EXCEPT !.limit = Some(l)] :
        l \in {<<"1", "0", "1">>, <<"1", "0", "0">>, Str("0"),
               <<"-", "1">>, <<"1", ".", "5">>, <<"a", "b", "c">>, <<>>,
               <<" ", "2">>, <<"2", ".", "0">>}}
    \cup {[NoParams EXCEPT !.page = Some(pg), !.limit = Some(Str("2"))] :
             pg \in {Str("0"), Str("2"), <<"1", ".", "5">>, <<"-", "2">>}}
    \cup {[NoParams EXCEPT !.sort = srt, !.order = ord] :
             srt \in {"undefined", "title", "bogus"},
             ord \in {"undefined", "asc", "up"}}
    \cup {[NoParams EXCEPT !.source = src] : src \in {"ai", "bogus"}}

PostRecipe(body) ==
    /\ nOps < MaxOps
    /\ mockRecipeCounter < MaxCounter
    /\ \E t2 \in {clock, clock + 1} :
          /\ t2 <= MaxClock
          /\ LET r == POST_recipes(MOCK_RECIPES, mockRecipeCounter, body,
                                   clock, t2)
             IN /\ MOCK_RECIPES' = r.store
                /\ mockRecipeCounter' = r.counter
                /\ res' = [op |-> "POST /api/recipes", body |-> body,
                           calls |-> r.calls, result |-> r.response]
                /\ clock' = IF r.calls = <<>> THEN clock ELSE t2
    /\ nOps' = nOps + 1
    /\ UNCHANGED <<profiles, chkVars, asyncVars>>

ListRecipes(query) ==
    /\ LET r == GET_recipes(MOCK_RECIPES, query)
       IN res' = [op |-> "GET /api/recipes", query |-> query,
                  calls |-> r.calls, result |-> r.response]
    /\ UNCHANGED <<MOCK_RECIPES, mockRecipeCounter, clock, profiles, nOps,
                   chkVars, asyncVars>>

GetRecipe(id) ==
    /\ LET r == GET_id(MOCK_RECIPES, id)
       IN res' = [op |-> "GET /api/recipes/:id", id |-> id,
                  calls |-> r.calls, result |-> r.response]
    /\ UNCHANGED <<MOCK_RECIPES, mockRecipeCounter, clock, profiles, nOps,
                   chkVars, asyncVars>>

PatchRecipe(id, body) ==
    /\ nOps < MaxOps
    /\ LET r == PATCH_id(MOCK_RECIPES, id, body, clock)
       IN /\ MOCK_RECIPES' = r.store
          /\ res' = [op |-> "PATCH /api/recipes/:id", id |-> id,
                     body |-> body, calls |-> r.calls,
                     result |-> r.response]
    /\ nOps' = nOps + 1
    /\ UNCHANGED <<mockRecipeCounter, clock, profiles, chkVars, asyncVars>>

DeleteRecipeById(id) ==
    /\ nOps < MaxOps
    /\ LET r == DELETE_id(MOCK_RECIPES, id)
       IN /\ MOCK_RECIPES' = r.store
          /\ res' = [op |-> "DELETE /api/recipes/:id", id |-> id,
                     calls |-> r.calls, result |-> r.response]
    /\ nOps' = nOps + 1
    /\ UNCHANGED <<mockRecipeCounter, clock, profiles, chkVars, asyncVars>>

PostRoute == \E body \in PostBodies : PostRecipe(body)

ListRoute == \E query \in Queries : ListRecipes(query)

GetRoute == \E id \in RouteIds : GetRecipe(id)

PatchRoute == \E id \in RouteIds, body \in PatchBodies :
                  PatchRecipe(id, body)

DeleteRoute == \E id \in RouteIds : DeleteRecipeById(id)

\* Every request is made for DEFAULT_USER_ID, as the handlers do
NextRoute ==
    PostRoute \/ ListRoute \/ GetRoute \/ PatchRoute \/ DeleteRoute \/ Tick

RouteSpec == Init /\ [][NextRoute]_vars

---------------------------------------------------------------------------
(* RecipeService over the database client, and the routes over it *)

\* What one query of the database client yields is an input: it resolves
\* with { data, error, count } or it rejects (throws).  Each key is <<>>
\* when null.
NoRows == "PGRST116"

dbError(code, message) ==
    [error |-> Some([code |-> code, message |-> message]), data |-> Null,
     count |-> Null, throws |-> Null]

dbData(data, count) ==
    [error |-> Null, data |-> Some(data), count |-> count, throws |-> Null]

dbThrows(message) ==
    [error |-> Null, data |-> Null, count |-> Null, throws |-> Some(message)]

Thrown(message, queries) ==
    [thrown |-> TRUE, message |-> message, queries |-> queries]

Returned(value, queries) ==
    [thrown |-> FALSE, value |-> value, queries |-> queries]

\* createRecipe: one insert; any error is thrown as "Failed to create
\* recipe", a rejection is rethrown as it is
createRecipe_supabase(reply) ==
    IF reply.throws # Null THEN Thrown(reply.throws[1], 1)
    ELSE IF reply.error # Null THEN Thrown("Failed to create recipe", 1)
    ELSE Returned(reply.data[1], 1)

\* getRecipes: one select with count
getRecipes_supabase(params, reply) ==
    IF reply.throws # Null THEN Thrown(reply.throws[1], 1)
    ELSE IF reply.error # Null THEN Thrown("Failed to fetch recipes", 1)
    ELSE LET page == IF params.page = Null THEN DefaultPage
                     ELSE params.page[1]
             limit == IF params.limit = Null THEN DefaultLimit
                      ELSE params.limit[1]
             totalItems == IF reply.count = Null THEN 0 ELSE reply.count[1]
             totalPages == ceilDiv(totalItems, limit)
         IN Returned([recipes |-> reply.data[1],
                      pagination |-> [page |-> page,
                                      limit |-> limit,
                                      total_items |-> totalItems,
                                      total_pages |-> totalPages,
                                      has_next |-> page < totalPages,
                                      has_previous |-> page > 1]], 1)

\* mutant: every error is taken for "no rows"
getRecipeById_supabase_swallows(reply) ==
    IF reply.throws # Null THEN Thrown(reply.throws[1], 1)
    ELSE IF reply.error # Null THEN Returned(Null, 1)
    ELSE Returned(Some(reply.data[1]), 1)

\* getRecipeById: one select; "no rows" is null, any other error is thrown
getRecipeById_supabase(reply) ==
    IF reply.throws # Null THEN Thrown(reply.throws[1], 1)
    ELSE IF reply.error # Null
    THEN IF reply.error[1].code = NoRows THEN Returned(Null, 1)
         ELSE Thrown("Failed to fetch recipe", 1)
    ELSE Returned(Some(reply.data[1]), 1)

\* updateRecipe: one update
updateRecipe_supabase(reply) ==
    IF reply.throws # Null THEN Thrown(reply.throws[1], 1)
    ELSE IF reply.error # Null
    THEN IF reply.error[1].code = NoRows THEN Returned(Null, 1)
         ELSE Thrown("Failed to update recipe", 1)
    ELSE Returned(Some(reply.data[1]), 1)

\* deleteRecipe: one delete with count
deleteRecipe_supabase(reply) ==
    IF reply.throws # Null THEN Thrown(reply.throws[1], 1)
    ELSE IF reply.error # Null THEN Thrown("Failed to delete recipe", 1)
    ELSE Returned((IF reply.count = Null THEN 0 ELSE reply.count[1]) > 0, 1)

\* mutant: the message of what was caught is sent to the caller
catchResponse_leaks(message) ==
    createErrorResponse(500, "Internal server error", message)

\* the catch block of the five handlers; message is error.message, which
\* is logged
catchResponse(message) ==
    createErrorResponse(500, "Internal server error",
                        "An unexpected error occurred")

Rejected(response) == [response |-> response, queries |-> 0]

\* the handlers, from the request and the reply of the database to the
\* response and the number of queries sent
POST_recipes_supabase(body, reply) ==
    IF body = Null THEN Rejected(BadRequest)
    ELSE IF ~createRecipeSchema(body[1]).success
    THEN Rejected(createErrorResponse(400, "Validation failed",
                                      "Invalid request data"))
    ELSE LET r == createRecipe_supabase(reply)
         IN [response |-> IF r.thrown THEN catchResponse(r.message)
                          ELSE [status |-> 201, body |-> r.value],
             queries |-> r.queries]

GET_recipes_supabase(query, reply) ==
    LET validation == recipeQuerySchema(queryParamsOf(query))
    IN IF ~validation.success
       THEN Rejected(createErrorResponse(400, "Validation failed",
                                         "Invalid query parameters"))
       ELSE LET r == getRecipes_supabase(validation.data, reply)
            IN [response |-> IF r.thrown THEN catchResponse(r.message)
                             ELSE [status |-> 200, body |-> r.value],
                queries |-> r.queries]

GET_id_supabase(id, reply) ==
    IF ~uuidParamSchema(id).success THEN Rejected(InvalidId)
    ELSE LET r == getRecipeById_supabase(reply)
         IN [response |-> IF r.thrown THEN catchResponse(r.message)
                          ELSE GET_response(r.value),
             queries |-> r.queries]

PATCH_id_supabase(id, body, reply) ==
    IF ~uuidParamSchema(id).success THEN Rejected(InvalidId)
    ELSE IF body = Null THEN Rejected(BadRequest)
    ELSE IF ~updateRecipeSchema(body[1]).success
    THEN Rejected(createErrorResponse(400, "Validation failed",
                                      "Invalid request data"))
    ELSE LET r == updateRecipe_supabase(reply)
         IN [response |-> IF r.thrown THEN catchResponse(r.message)
                          ELSE PATCH_response(r.value),
             queries |-> r.queries]

DELETE_id_supabase(id, reply) ==
    IF ~uuidParamSchema(id).success THEN Rejected(InvalidId)
    ELSE LET r == deleteRecipe_supabase(reply)
         IN [response |-> IF r.thrown THEN catchResponse(r.message)
                          ELSE DELETE_response(r.value),
             queries |-> r.queries]

ConnectionRefused == "connection to server at db.internal:5432 refused"
PermissionDenied == "permission denied for table recipes"

\* replies to a query for one row
RowReplies ==
    {dbData(SeedRecipes[1], Null),
     dbError(NoRows, "JSON object requested, multiple (or no) rows returned"),
     dbError("08006", ConnectionRefused),
     dbError("42501", PermissionDenied),
     dbThrows("fetch failed")}

\* replies to a query for rows and their count
ListReplies ==
    {dbData(SeedRecipes, Some(3)),
     dbData(<<>>, Null),
     dbError("08006", ConnectionRefused),
     dbError("42501", PermissionDenied),
     dbThrows("fetch failed")}

\* replies to a delete with count
CountReplies ==
    {[error |-> Null, data |-> Null, count |-> c, throws |-> Null] :
        c \in {Null, Some(0), Some(1)}}
    \cup {dbError("08006", ConnectionRefused),
          dbError("42501", PermissionDenied),
          dbThrows("fetch failed")}

DbPostBodies ==
    {Null,
     Some([title |-> Str("a"), ingredients |-> NewIngredients,
           preparation_steps |-> NewSteps, source |-> "ai"]),
     Some([title |-> <<>>, ingredients |-> NewIngredients,
           preparation_steps |-> NewSteps, source |-> "ai"])}

DbPatchBodies ==
    {Some([title |-> t, ingredients |-> Null, preparation_steps |-> Null,
           source |-> Null]) : t \in {Null, Some(Str("b"))}}

DbQueries ==
    {NoParams,
     [NoParams EXCEPT !.limit = Some(<<"1", "0", "1">>)],
     [NoParams EXCEPT !.page = Some(Str("2")), !.limit = Some(Str("2"))]}

DbRequest(op, request, reply, r) ==
    /\ res' = [op |-> op, request |-> request, reply |-> reply,
               queries |-> r.queries, result |-> r.response]
    /\ UNCHANGED <<MOCK_RECIPES, mockRecipeCounter, clock, profiles, nOps,
                   chkVars, asyncVars>>

DbPost == \E body \in DbPostBodies, reply \in RowReplies :
              DbRequest("POST /api/recipes", [body |-> body], reply,
                        POST_recipes_supabase(body, reply))

DbList == \E query \in DbQueries, reply \in ListReplies :
              DbRequest("GET /api/recipes", [query |-> query], reply,
                        GET_recipes_supabase(query, reply))

DbGet == \E id \in RouteIds, reply \in RowReplies :
             DbRequest("GET /api/recipes/:id", [id |-> id], reply,
                       GET_id_supabase(id, reply))

DbPatch == \E id \in RouteIds, body \in DbPatchBodies, reply \in RowReplies :
               DbRequest("PATCH /api/recipes/:id", [id |-> id, body |-> body],
                         reply, PATCH_id_supabase(id, body, reply))

DbDelete == \E id \in RouteIds, reply \in CountReplies :
                DbRequest("DELETE /api/recipes/:id", [id |-> id], reply,
                          DELETE_id_supabase(id, reply))

NextDb == DbPost \/ DbList \/ DbGet \/ DbPatch \/ DbDelete \/ Tick

DbSpec == Init /\ [][NextDb]_vars

---------------------------------------------------------------------------
(* The conflict checker as a pure function of its two arguments *)

Peanut ==
    <<"p", "e", "a", "n", "u", "t">>

PeanutButterLine ==
    <<"2", " ", "t", "b", "s", "p", " ", "p", "e", "a", "n", "u", "t",
      " ", "b", "u", "t", "t", "e", "r">>

SeqsUpTo(S, n) == UNION {[1..k -> S] : k \in 0..n}

CheckerLines ==
    {<<"a">>, <<"B">>, <<"a", "a">>, <<"a", "B">>, <<"B", "a">>,
     <<"B", "B">>, PeanutButterLine}

CheckerTerms ==
    {<<"a">>, <<"b">>, <<"A">>, <<"a", "b">>, <<"b", "a">>, Peanut}

\* a profile row whose ingredients_to_avoid is null, or a list of terms
CheckerProfiles ==
    {[ingredients_to_avoid |-> Null]}
    \cup {[ingredients_to_avoid |-> Some(terms)] :
             terms \in SeqsUpTo(CheckerTerms, MaxTerms)}

InitChk ==
    /\ MOCK_RECIPES = SeedRecipes
    /\ mockRecipeCounter = InitialCounter
    /\ clock = 4
    /\ profiles = SaltProfiles
    /\ res = NoCall
    /\ nOps = 0
    /\ chkIngredients \in SeqsUpTo(CheckerLines, MaxLines)
    /\ chkProfile \in {Some(p) : p \in CheckerProfiles}
    /\ chkWarnings = Null
    /\ pending = <<>>
    /\ done = <<>>

CheckIngredients ==
    /\ chkWarnings = Null
    /\ chkWarnings' =
          Some(checkIngredientsAgainstProfile(chkIngredients, chkProfile[1]))
    /\ UNCHANGED <<storeVars, chkIngredients, chkProfile, asyncVars>>

NextChk == CheckIngredients

CheckerSpec == InitChk /\ [][NextChk]_vars

---------------------------------------------------------------------------
(* Conflict checker: properties *)

\* search occurs in str at some offset (stated without SubSeq)
OccursIn(search, str) ==
    \E off \in 0..Len(str) :
        /\ off + Len(search) <= Len(str)
        /\ \A k \in 1..Len(search) : str[off + k] = search[k]

\* the avoided terms of the checked profile, lowercased, in list order
ChkTerms ==
    IF chkProfile[1].ingredients_to_avoid = Null THEN <<>>
    ELSE [j \in 1..Len(chkProfile[1].ingredients_to_avoid[1]) |->
             toLowerCase(chkProfile[1].ingredients_to_avoid[1][j])]

\* the avoided terms that ingredient line i contains
ChkHits(i) ==
    {j \in 1..Len(ChkTerms) :
        OccursIn(ChkTerms[j], toLowerCase(chkIngredients[i]))}

ChkMatchingLines == {i \in 1..Len(chkIngredients) : ChkHits(i) # {}}

ChkWarned == {chkWarnings[1][k].ingredient : k \in 1..Len(chkWarnings[1])}

\* C7: a line produces a warning exactly when its lowercased form contains
\* a lowercased avoided term (so there are as many warnings as such lines),
\* every warning names a lowercased avoided term contained in some line,
\* {"peanut"} against "2 tbsp peanut butter" gives exactly one warning, for
\* "peanut", and an empty or missing avoidance list gives no warning.
C7_ConflictMatching ==
    chkWarnings # Null =>
        /\ Len(chkWarnings[1]) = Cardinality(ChkMatchingLines)
        /\ \A w \in ChkWarned :
              \E i \in ChkMatchingLines : \E j \in ChkHits(i) :
                  w = ChkTerms[j]
        /\ (chkIngredients = <<PeanutButterLine>> /\ ChkTerms = <<Peanut>>)
              => (Len(chkWarnings[1]) = 1
                  /\ chkWarnings[1][1].ingredient = Peanut)
        /\ ChkTerms = <<>> => chkWarnings[1] = <<>>

C7_Witness ==
    /\ chkWarnings # Null
    /\ chkIngredients = <<PeanutButterLine, <<"B", "a">> >>
    /\ chkProfile[1].ingredients_to_avoid = Some(<<Peanut, <<"A">> >>)
    /\ Len(chkWarnings[1]) = 2
    /\ chkWarnings[1][2].ingredient = <<"a">>

\* C8 as claimed: every avoided term contained in some ingredient line has
\* a warning of its own.
C8_EveryTermWarned ==
    chkWarnings # Null =>
        \A i \in ChkMatchingLines : \A j \in ChkHits(i) :
            ChkTerms[j] \in ChkWarned

\* C8 as amended: the warned terms are exactly the terms that are the first
\* avoided term, in avoidance-list order, contained in some ingredient line;
\* a term that only occurs in lines already matched by an earlier term gets
\* no warning.
C8_FirstTermWarned ==
    chkWarnings # Null =>
        ChkWarned = {ChkTerms[Min(ChkHits(i))] : i \in ChkMatchingLines}

\* one line containing two avoided terms: only the first is warned about
C8_Witness ==
    /\ chkWarnings # Null
    /\ chkIngredients = << <<"a", "B">> >>
    /\ chkProfile[1].ingredients_to_avoid = Some(<< <<"b">>, <<"a">> >>)
    /\ ChkWarned = { <<"b">> }

---------------------------------------------------------------------------
(* Store: properties *)

\* an id that no create call ever assigns (the counter starts at 4)
AbsentId == IdOf(0)

PartialCommand(command) ==
    /\ command.title # Null \/ command.ingredients # Null
       \/ command.preparation_steps # Null
    /\ command.title = Null \/ command.ingredients = Null
       \/ command.preparation_steps = Null

\* the step is a get, update or delete by a user who does not own the
\* stored recipe with that id
NonOwnerStep ==
    /\ res'.op \in {"get", "update", "delete"}
    /\ \E i \in 1..Len(MOCK_RECIPES) :
          /\ MOCK_RECIPES[i].id = res'.id
          /\ MOCK_RECIPES[i].user_id # res'.userId

\* C1: a get, update or delete by a non-owner returns null / null / false,
\* leaves the store unchanged, and its result and the route's answer (404)
\* are those of the same call on an id that does not exist.
C1_OwnershipIsolation ==
    [][NonOwnerStep =>
        /\ MOCK_RECIPES' = MOCK_RECIPES
        /\ res'.op = "get" =>
              /\ res'.result = Null
              /\ res'.result
                   = getRecipeById(MOCK_RECIPES, AbsentId, res'.userId)
              /\ GET_response(res'.result).status = 404
        /\ res'.op = "update" =>
              /\ res'.result = Null
              /\ res'.result
                   = updateRecipe(MOCK_RECIPES, AbsentId, res'.userId,
                                  res'.command, clock).result
              /\ PATCH_response(res'.result).status = 404
        /\ res'.op = "delete" =>
              /\ res'.result = FALSE
              /\ res'.result
                   = deleteRecipe(MOCK_RECIPES, AbsentId, res'.userId).result
              /\ DELETE_response(res'.result).status = 404
    ]_vars

\* the default user has tried to update a recipe the other user created
C1_Witness ==
    /\ res.op = "update"
    /\ res.userId = DEFAULT_USER_ID
    /\ res.result = Null
    /\ \E i \in 1..Len(MOCK_RECIPES) :
          /\ MOCK_RECIPES[i].id = res.id
          /\ MOCK_RECIPES[i].user_id = OTHER_USER_ID
          /\ res.command.title # Null
          /\ MOCK_RECIPES[i].title # res.command.title[1]

\* C2 as claimed: after createRecipe, getRecipeById with the returned id and
\* the same owner returns the recipe with the command's fields, the owner,
\* an id, and created_at = updated_at.
C2_CreateGetRoundTrip ==
    res.op = "create" =>
        LET got == getRecipeById(MOCK_RECIPES, res.result.id, res.userId)
        IN /\ got # Null
           /\ got[1].title = res.command.title
           /\ got[1].ingredients = res.command.ingredients
           /\ got[1].preparation_steps = res.command.preparation_steps
           /\ got[1].source = res.command.source
           /\ got[1].user_id = res.userId
           /\ got[1].id = res.result.id
           /\ got[1].created_at = got[1].updated_at

\* C3 as claimed: an update by the owner with a proper non-empty subset of
\* the three fields sets the supplied fields, keeps the others, and makes
\* updated_at strictly greater than it was.
C3_PartialUpdate ==
    [][(/\ res'.op = "update"
        /\ PartialCommand(res'.command)
        /\ findIndex(MOCK_RECIPES, res'.id, res'.userId) # 0) =>
        LET i == findIndex(MOCK_RECIPES, res'.id, res'.userId)
            old == MOCK_RECIPES[i]
            new == MOCK_RECIPES'[i]
            c == res'.command
        IN /\ res'.result = Some(new)
           /\ new.title = IF c.title # Null THEN c.title[1] ELSE old.title
           /\ new.ingredients = IF c.ingredients # Null
                                THEN c.ingredients[1] ELSE old.ingredients
           /\ new.preparation_steps =
                 IF c.preparation_steps # Null
                 THEN c.preparation_steps[1] ELSE old.preparation_steps
           /\ new.updated_at > old.updated_at
    ]_vars

IdsIssued == {IdOf(n) : n \in 1..(mockRecipeCounter - 1)}

\* C4: deleting a stored recipe returns true and removes it; from then on
\* the id is never stored again, so every later delete returns false (the
\* route answers 404, it does not throw) and get returns null.
C4_DeleteIdempotent ==
    [][/\ \A id \in IdsIssued, u \in Users :
             findIndex(MOCK_RECIPES, id, u) = 0
                => /\ findIndex(MOCK_RECIPES', id, u) = 0
                   /\ getRecipeById(MOCK_RECIPES', id, u) = Null
                   /\ deleteRecipe(MOCK_RECIPES', id, u).result = FALSE
       /\ res'.op = "delete" =>
             IF findIndex(MOCK_RECIPES, res'.id, res'.userId) # 0
             THEN /\ res'.result = TRUE
                  /\ Len(MOCK_RECIPES') = Len(MOCK_RECIPES) - 1
                  /\ findIndex(MOCK_RECIPES', res'.id, res'.userId) = 0
                  /\ res'.id \in IdsIssued
             ELSE /\ res'.result = FALSE
                  /\ DELETE_response(res'.result).status = 404
                  /\ MOCK_RECIPES' = MOCK_RECIPES
    ]_vars

\* the second delete of the first seed recipe by its owner
C4_Witness ==
    /\ res.op = "delete"
    /\ res.id = IdOf(1)
    /\ res.userId = DEFAULT_USER_ID
    /\ res.result = FALSE
    /\ nOps = 2
    /\ getRecipeById(MOCK_RECIPES, IdOf(1), DEFAULT_USER_ID) = Null

---------------------------------------------------------------------------
(* List: properties *)

\* page sizes the pagination properties are evaluated for
CheckedLimits == (1..MaxLimit) \cup {DefaultLimit, LimitCeiling}

ListOf(userId, p, l, src) ==
    getRecipes(MOCK_RECIPES, userId,
               [page |-> Some(p), limit |-> Some(l), sort |-> "undefined",
                order |-> "undefined", source |-> src])

RECURSIVE SumItems(_, _, _, _)
SumItems(userId, l, src, upTo) ==
    IF upTo = 0 THEN 0
    ELSE Len(ListOf(userId, upTo, l, src).recipes)
         + SumItems(userId, l, src, upTo - 1)

Owned(userId) == {i \in 1..Len(MOCK_RECIPES) :
                     MOCK_RECIPES[i].user_id = userId}

\* the least number of pages of size l that hold n items
PagesNeeded(n, l) == Min({k \in 0..n : k * l >= n})

\* C5: for an owner holding N recipes and a limit L, the pages 1..total_pages
\* hold N items in all, total_items = N, total_pages = ceil(N / L), has_next
\* is true on every page but the last and false on the last, and
\* has_previous is true exactly on the pages after the first.
C5_PaginationInvariant ==
    \A u \in Users, l \in CheckedLimits :
        LET n == Cardinality(Owned(u))
            tp == ListOf(u, 1, l, NoSource).pagination.total_pages
        IN /\ tp = PagesNeeded(n, l)
           /\ SumItems(u, l, NoSource, tp) = n
           /\ \A p \in 1..(tp + 1) :
                 LET pg == ListOf(u, p, l, NoSource).pagination
                 IN /\ pg.total_items = n
                    /\ pg.total_pages = tp
                    /\ p <= tp => (pg.has_next <=> p < tp)
                    /\ pg.has_previous <=> p > 1

\* a middle page of three has been returned
C5_Witness ==
    /\ res.op = "list"
    /\ res.result.pagination.total_pages = 3
    /\ res.result.pagination.page = 2
    /\ res.result.pagination.has_next
    /\ res.result.pagination.has_previous
    /\ Len(res.result.recipes) = 2
    /\ Cardinality(Owned(res.userId)) = 5

Selected(userId, src) ==
    {i \in Owned(userId) : src = NoSource \/ MOCK_RECIPES[i].source = src}

SourcesOf(userId) ==
    LET mine == SelectSeq(MOCK_RECIPES, LAMBDA r : r.user_id = userId)
    IN [i \in 1..Len(mine) |-> mine[i].source]

\* C6: getRecipes returns only recipes of the owner and, when a source is
\* given, of that source; total_items counts exactly those stored recipes;
\* an owner whose recipes have the sources ai, manual, ai gets 2 items and
\* total_items = 2 for source = ai.
C6_SourceFilter ==
    \A u \in Users, src \in {NoSource} \cup Sources, l \in CheckedLimits,
       p \in 1..MaxPage :
        LET r == ListOf(u, p, l, src)
        IN /\ \A k \in 1..Len(r.recipes) :
                 /\ r.recipes[k].user_id = u
                 /\ src # NoSource => r.recipes[k].source = src
                 /\ \E i \in Selected(u, src) : MOCK_RECIPES[i] = r.recipes[k]
           /\ r.pagination.total_items = Cardinality(Selected(u, src))
           /\ (SourcesOf(u) = <<"ai", "manual", "ai">> /\ src = "ai"
               /\ p = 1 /\ l = DefaultLimit)
                 => (Len(r.recipes) = 2 /\ r.pagination.total_items = 2)

\* the other user's recipes are stored, the default user lists source = ai
C6_Witness ==
    /\ res.op = "list"
    /\ res.userId = DEFAULT_USER_ID
    /\ res.params.source = "ai"
    /\ res.params.page = Some(1)
    /\ SourcesOf(DEFAULT_USER_ID) = <<"ai", "manual", "ai">>
    /\ Len(res.result.recipes) = 2
    /\ res.result.pagination.total_items = 2
    /\ \E i \in 1..Len(MOCK_RECIPES) :
          /\ MOCK_RECIPES[i].user_id = OTHER_USER_ID
          /\ MOCK_RECIPES[i].source = "ai"

---------------------------------------------------------------------------
(* Generate: properties *)

\* the warnings the conflict checker computes for the caller's stored
\* avoidance list (none when the caller has no profile row)
ExpectedWarnings(draft, userId) ==
    IF profiles[userId] = Null THEN <<>>
    ELSE checkIngredientsAgainstProfile(draft.ingredients,
                                        profiles[userId][1])

\* C9 as claimed: a successful generate request returns the adapter's draft
\* with exactly the warnings the conflict checker computes from the draft's
\* ingredients and the caller's stored avoidance list.
C9_GenerateWarnings ==
    (res.op = "generate" /\ res.result.status = 200) =>
        res.result.body.warnings
            = ExpectedWarnings(res.result.body.recipe, res.userId)

\* C10: a generate request, whatever its outcome, leaves the stored recipes
\* and the id counter as they were; the store only grows in a create call.
C10_GenerateNeverPersists ==
    [][/\ res'.op = "generate" =>
             /\ MOCK_RECIPES' = MOCK_RECIPES
             /\ mockRecipeCounter' = mockRecipeCounter
       /\ Len(MOCK_RECIPES') > Len(MOCK_RECIPES) => res'.op = "create"
    ]_vars

\* the adapter failed after a recipe had been created
C10_Witness ==
    /\ res.op = "generate"
    /\ res.result.status = 503
    /\ Len(MOCK_RECIPES) = Len(SeedRecipes) + 1

\* the request passed the route's checks, so the adapter was invoked
Dispatched == res.op = "generate" /\ res.calls # <<>>

Blank(s) == \A k \in 1..Len(s) : s[k] \in WhiteSpace

\* C12: a generate request with fewer than 3 ingredients, or with an
\* ingredient that is blank, is answered 400 "Validation failed" and the
\* adapter is not invoked; with 3 or more ingredients, none of them blank,
\* the adapter is invoked once and the answer is not 400.
C12_GenerationThreshold ==
    (res.op = "generate" /\ res.body # Null) =>
        LET ingredients == res.body[1].ingredients
        IN IF \/ Len(ingredients) < 3
              \/ \E i \in 1..Len(ingredients) : Blank(ingredients[i])
           THEN /\ res.result.status = 400
                /\ res.result.body.error = "Validation failed"
                /\ res.calls = <<>>
           ELSE /\ Len(res.calls) = 1
                /\ res.result.status # 400

\* two ingredients have been rejected
C12_Witness ==
    /\ res.op = "generate"
    /\ res.body # Null
    /\ Len(res.body[1].ingredients) = 2
    /\ res.result.status = 400
    /\ res.calls = <<>>

\* C13: every ingredient handed to aiService.generateRecipe has at most 100
\* characters, all of them word characters, white space, comma, period or
\* hyphen, and is the request's ingredient at the same position trimmed,
\* cut to 100 characters and stripped of every other character.
C13_SanitizedDispatch ==
    res.op = "generate" =>
        \A c \in 1..Len(res.calls) :
            LET sent == res.calls[c]
                raw == res.body[1].ingredients
            IN /\ Len(sent) = Len(raw)
               /\ \A i \in 1..Len(sent) :
                     /\ Len(sent[i]) <= 100
                     /\ \A k \in 1..Len(sent[i]) :
                           sent[i][k] \in AllowedChars
                     /\ sent[i] = SelectSeq(slice(trim(raw[i]), 0, 100),
                                            LAMBDA ch : ch \in AllowedChars)

\* an ingredient of 101 characters, one of them "!", has been dispatched
C13_Witness ==
    /\ Dispatched
    /\ res.body[1].ingredients[1] = LongIngredient
    /\ Len(res.calls[1][1]) = 99

---------------------------------------------------------------------------
(* Routes: properties *)

\* the number a page or limit value of the query string stands for
Given(value, default) ==
    IF value = Null THEN [kind |-> "integer", value |-> default]
    ELSE coerceNumber(value[1])

BadPaging(query) ==
    LET page == Given(query.page, 1)
        limit == Given(query.limit, 20)
    IN \/ page.kind # "integer"
       \/ limit.kind # "integer"
       \/ page.value < 1
       \/ limit.value < 1
       \/ limit.value > 100

\* C14: a list request whose limit is above 100 or below 1, whose page is
\* below 1, or whose page or limit is not an integer, is answered 400
\* "Validation failed" and getRecipes is not called; every call of
\* getRecipes carries the page and limit of the request, 1 and 20 when they
\* are omitted, so a limit is never replaced by 100.
C14_LimitRejected ==
    res.op = "GET /api/recipes" =>
        /\ BadPaging(res.query) =>
              /\ res.result.status = 400
              /\ res.result.body.error = "Validation failed"
              /\ res.calls = <<>>
        /\ \A c \in 1..Len(res.calls) :
              /\ res.calls[c].params.page
                    = Some(Given(res.query.page, 1).value)
              /\ res.calls[c].params.limit
                    = Some(Given(res.query.limit, 20).value)
              /\ res.result.body.pagination.limit
                    = Given(res.query.limit, 20).value
        /\ (res.query.page = Null /\ res.query.limit = Null
            /\ res.calls # <<>>) =>
              /\ res.result.body.pagination.page = 1
              /\ res.result.body.pagination.limit = 20

\* limit=101 has been rejected
C14_Witness ==
    /\ res.op = "GET /api/recipes"
    /\ res.query.limit = Some(<<"1", "0", "1">>)
    /\ res.result.status = 400
    /\ res.calls = <<>>

\* limit=100 has been executed with limit 100
C14_WitnessCeiling ==
    /\ res.op = "GET /api/recipes"
    /\ res.query.limit = Some(<<"1", "0", "0">>)
    /\ res.result.status = 200
    /\ res.calls[1].params.limit = Some(100)

EmptyUpdate(body) ==
    /\ body # Null
    /\ body[1].title = Null
    /\ body[1].ingredients = Null
    /\ body[1].preparation_steps = Null

\* C15: an update request whose body has none of title, ingredients and
\* preparation_steps (whether or not it has other keys) is answered 400
\* "Validation failed", updateRecipe is not called, and the stored recipes,
\* their updated_at included, stay as they were.
C15_EmptyUpdateRejected ==
    [][(res'.op = "PATCH /api/recipes/:id" /\ EmptyUpdate(res'.body)) =>
        /\ res'.result.status = 400
        /\ res'.result.body.error = "Validation failed"
        /\ res'.calls = <<>>
        /\ MOCK_RECIPES' = MOCK_RECIPES
    ]_vars

\* a body that carries only source was sent for a stored recipe, later
\* than the recipe's last change
C15_Witness ==
    /\ res.op = "PATCH /api/recipes/:id"
    /\ EmptyUpdate(res.body)
    /\ res.body[1].source # Null
    /\ res.result.status = 400
    /\ \E i \in 1..Len(MOCK_RECIPES) :
          /\ MOCK_RECIPES[i].id = res.id
          /\ MOCK_RECIPES[i].user_id = DEFAULT_USER_ID
          /\ MOCK_RECIPES[i].updated_at < clock

BlankEntry(strings) == \E i \in 1..Len(strings) : Blank(strings[i])

BadTitle(title) == Blank(title) \/ Len(trim(title)) > 255

BadList(strings) == strings = <<>> \/ BlankEntry(strings)

BadCreate(body) ==
    \/ BadTitle(body.title)
    \/ BadList(body.ingredients)
    \/ BadList(body.preparation_steps)
    \/ body.source \notin {"ai", "manual"}

BadUpdate(body) ==
    \/ body.title # Null /\ BadTitle(body.title[1])
    \/ body.ingredients # Null /\ BadList(body.ingredients[1])
    \/ body.preparation_steps # Null /\ BadList(body.preparation_steps[1])

\* what follows the fixed prefix is not one hexadecimal digit
BadId(id) == Len(id) # 1 \/ id[1] \notin HexDigits

\* the request of the step has one of the defects validation is for
Defective(r) ==
    CASE r.op = "POST /api/recipes" ->
            r.body # Null /\ BadCreate(r.body[1])
      [] r.op = "GET /api/recipes" ->
            \/ BadPaging(r.query)
            \/ r.query.order \notin {"undefined", "asc", "desc"}
            \/ r.query.source \notin {"undefined", "ai", "manual"}
      [] r.op = "GET /api/recipes/:id" -> BadId(r.id)
      [] r.op = "PATCH /api/recipes/:id" ->
            BadId(r.id) \/ (r.body # Null /\ BadUpdate(r.body[1]))
      [] r.op = "DELETE /api/recipes/:id" -> BadId(r.id)
      [] OTHER -> FALSE

\* C16: a create, list, get, update or delete request with an empty or
\* over-long title, an empty list, a blank entry, an unknown source, a
\* malformed identifier or a bad paging parameter is answered 400
\* "Validation failed"; a request answered 400 called no RecipeService
\* method and left the stored recipes and the id counter as they were.
C16_ValidationBeforeService ==
    [][/\ Defective(res') =>
             /\ res'.result.status = 400
             /\ res'.result.body.error = "Validation failed"
       /\ (res'.op # "none" /\ res'.result.status = 400) =>
             /\ res'.calls = <<>>
             /\ MOCK_RECIPES' = MOCK_RECIPES
             /\ mockRecipeCounter' = mockRecipeCounter
    ]_vars

\* a title of 256 characters has been rejected after a recipe was created
C16_Witness ==
    /\ res.op = "POST /api/recipes"
    /\ res.body # Null
    /\ Len(res.body[1].title) = 256
    /\ res.result.status = 400
    /\ res.calls = <<>>
    /\ Len(MOCK_RECIPES) = Len(SeedRecipes) + 1

\* an update with a malformed identifier has been rejected
C16_WitnessId ==
    /\ res.op = "PATCH /api/recipes/:id"
    /\ res.id = <<"1", "0">>
    /\ res.body # Null
    /\ ~BadUpdate(res.body[1])
    /\ ~EmptyUpdate(res.body)
    /\ res.result.status = 400

RecipeColumns ==
    {"id", "user_id", "title", "ingredients", "preparation_steps", "source",
     "created_at", "updated_at"}

\* C19 as claimed: a list request whose sort parameter is not the name of
\* a recipe column is answered 400 and getRecipes is not called.
C19_SortValidated ==
    (res.op = "GET /api/recipes" /\ res.query.sort # "undefined"
     /\ res.query.sort \notin RecipeColumns) =>
        /\ res.result.status = 400
        /\ res.calls = <<>>

---------------------------------------------------------------------------
(* Store: identity *)

\* every recipe of before that is still in after, found by its id, has the
\* owner, source and creation time it had
SameIdentity(before, after) ==
    \A i \in 1..Len(before), j \in 1..Len(after) :
        before[i].id = after[j].id =>
            /\ after[j].user_id = before[i].user_id
            /\ after[j].source = before[i].source
            /\ after[j].created_at = before[i].created_at

\* update requests whose body carries a key outside the schema
ForeignKeyBodies ==
    {Some([title |-> t, ingredients |-> Null, preparation_steps |-> p,
           source |-> Some(src)]) :
        t \in {Null, Some(Str("b"))}, p \in {Null, Some(NewSteps)},
        src \in Sources}

\* a step every state has (getRecipeById is always enabled); what is to
\* hold of every state is evaluated on it, once per state
FirstLookup ==
    /\ res'.op = "get"
    /\ res'.id = IdOf(1)
    /\ res'.userId = DEFAULT_USER_ID

\* C17: no create, get, update or delete call by any owner changes the id,
\* user_id, source or created_at of a recipe that stays stored; and in
\* every state an update request whose body carries source besides the
\* declared keys changes none of them either and removes no recipe.
C17_ImmutableIdentity ==
    [][/\ SameIdentity(MOCK_RECIPES, MOCK_RECIPES')
       /\ FirstLookup =>
             \A id \in RouteIds, body \in ForeignKeyBodies :
                 LET r == PATCH_id(MOCK_RECIPES, id, body, clock)
                 IN /\ SameIdentity(MOCK_RECIPES, r.store)
                    /\ Len(r.store) = Len(MOCK_RECIPES)
    ]_vars

\* the owner has changed the title of an "ai" recipe after its creation,
\* and an update request carrying source = "manual" would succeed on it
C17_Witness ==
    /\ res.op = "update"
    /\ res.result # Null
    /\ res.result[1].source = "ai"
    /\ res.result[1].updated_at > res.result[1].created_at
    /\ res.command.title # Null
    /\ \E body \in ForeignKeyBodies :
          LET r == PATCH_id(MOCK_RECIPES, res.id, body, clock)
          IN /\ res.userId = DEFAULT_USER_ID
             /\ r.response.status = 200
             /\ r.response.body.source = "ai"
             /\ r.response.body.title # res.result[1].title

AllIds(store) == {store[i].id : i \in 1..Len(store)}

\* C18: no two stored recipes have the same id; every stored id was issued
\* (it is a seed id or the id of a counter value already used), the issued
\* ids only grow, and createRecipe assigns an id that was not issued
\* before, so it differs from the id of every recipe that ever existed,
\* deleted ones included.
C18_UniqueIds ==
    [][/\ Cardinality(AllIds(MOCK_RECIPES')) = Len(MOCK_RECIPES')
       /\ AllIds(MOCK_RECIPES) \subseteq IdsIssued
       /\ AllIds(MOCK_RECIPES') \subseteq IdsIssued'
       /\ IdsIssued \subseteq IdsIssued'
       /\ res'.op = "create" =>
             /\ res'.result.id \notin IdsIssued
             /\ res'.result.id \in AllIds(MOCK_RECIPES')
             /\ AllIds(MOCK_RECIPES') = AllIds(MOCK_RECIPES)
                                           \cup {res'.result.id}
    ]_vars

\* a recipe has been created after the last seed recipe was deleted
C18_Witness ==
    /\ res.op = "create"
    /\ res.result.id = IdOf(InitialCounter)
    /\ IdOf(InitialCounter - 1) \notin AllIds(MOCK_RECIPES)
    /\ Len(MOCK_RECIPES) = Len(SeedRecipes)

---------------------------------------------------------------------------
(* Routes over the database: properties *)

\* the database reported an error other than "no rows", or the query
\* itself failed
UnexpectedError(reply) ==
    \/ reply.throws # Null
    \/ reply.error # Null /\ reply.error[1].code # "PGRST116"

StorageMessage(reply) ==
    IF reply.throws # Null THEN reply.throws[1] ELSE reply.error[1].message

\* C20: a create, list, get, update or delete request whose query the
\* database answers with an error other than "no rows" is answered 500
\* "An unexpected error occurred", which is neither 404 nor 400; the body
\* does not hold the database's message, and one query was sent.
C20_OpaquePersistenceFailure ==
    (res.op # "none" /\ res.queries > 0 /\ UnexpectedError(res.reply)) =>
        /\ res.result.status = 500
        /\ res.result.body.error = "Internal server error"
        /\ res.result.body.message = "An unexpected error occurred"
        /\ StorageMessage(res.reply) # res.result.body.error
        /\ StorageMessage(res.reply) # res.result.body.message
        /\ res.queries = 1

\* the query of an update request has been refused by the database
C20_Witness ==
    /\ res.op = "PATCH /api/recipes/:id"
    /\ res.queries = 1
    /\ res.reply.error # Null
    /\ res.reply.error[1].code = "08006"
    /\ res.result.status = 500


---------------------------------------------------------------------------
(* Page contents: properties *)

\* the sort fields and orders the page contents are evaluated for
\* ("undefined" is the absent parameter)
CheckedSorts ==
    {<<"undefined", "undefined">>, <<"created_at", "asc">>,
     <<"title", "asc">>, <<"title", "desc">>, <<"updated_at", "undefined">>}

PageOf(userId, p, l, sortBy, src) ==
    getRecipes(MOCK_RECIPES, userId,
               [page |-> Some(p), limit |-> Some(l), sort |-> sortBy[1],
                order |-> sortBy[2], source |-> src])

\* the owner's recipes of the source, in store order
SelectedSeq(userId, src) ==
    LET RECURSIVE upTo(_)
        upTo(n) ==
            IF n = 0 THEN <<>>
            ELSE IF n \in Selected(userId, src)
                 THEN Append(upTo(n - 1), MOCK_RECIPES[n])
                 ELSE upTo(n - 1)
    IN upTo(Len(MOCK_RECIPES))

\* a goes before b when the list is sorted by the field in the order;
\* absent parameters mean created_at, newest first
GoesBefore(a, b, sortBy) ==
    LET f == IF sortBy[1] = "undefined" THEN "created_at" ELSE sortBy[1]
        c == fieldCompare(a, b, f)
    IN IF sortBy[2] = "asc" THEN c < 0 ELSE c > 0

\* the recipes of fl in sorted order, equal keys in the order of fl
SortedBy(fl, sortBy) ==
    LET rank(i) == 1 + Cardinality({j \in 1..Len(fl) :
                        \/ GoesBefore(fl[j], fl[i], sortBy)
                        \/ /\ ~GoesBefore(fl[i], fl[j], sortBy)
                           /\ j < i})
    IN [k \in 1..Len(fl) |-> fl[CHOOSE i \in 1..Len(fl) : rank(i) = k]]

\* positions (p-1)*l .. p*l-1 (0-based) of s, as far as s reaches
Positions(s, p, l) ==
    LET first == (p - 1) * l + 1
        last == Min({p * l, Len(s)})
    IN IF first > last THEN <<>>
       ELSE [k \in 1..(last - first + 1) |-> s[first + k - 1]]

PageCases == Users \X (1..(MaxPage + 1)) \X CheckedLimits \X CheckedSorts
                 \X {NoSource, "manual"}

---------------------------------------------------------------------------
(* Conflict checker: order and multiplicity of the warnings *)

\* the k-th ingredient line, in line order, that contains an avoided term
KthMatchingLine(k) ==
    CHOOSE i \in ChkMatchingLines :
        Cardinality({j \in ChkMatchingLines : j <= i}) = k

\* one warning per matching line, in line order, for its first term
ChkExpected ==
    [k \in 1..Cardinality(ChkMatchingLines) |->
        warningFor(ChkTerms[Min(ChkHits(KthMatchingLine(k)))])]

\* C22: checkIngredientsAgainstProfile returns at most one warning per
\* ingredient line (never more warnings than lines); the k-th warning is the
\* one of the k-th line that contains an avoided term and carries the first
\* term, in avoidance-list order, that this line contains; the call changes
\* neither its arguments nor the stored recipes, counter and profiles.
C22_WarningOrder ==
    [][/\ chkWarnings' = Some(ChkExpected)
       /\ Len(ChkExpected) <= Len(chkIngredients)
       /\ chkIngredients' = chkIngredients
       /\ chkProfile' = chkProfile
       /\ MOCK_RECIPES' = MOCK_RECIPES
       /\ mockRecipeCounter' = mockRecipeCounter
       /\ profiles' = profiles]_vars

\* two lines, each containing both avoided terms; the second term of the
\* list is the only one the first line starts with
C22_Witness ==
    /\ chkWarnings # Null
    /\ chkIngredients = << <<"B", "a">>, <<"a", "B">> >>
    /\ chkProfile[1].ingredients_to_avoid = Some(<< <<"A">>, <<"b">> >>)
    /\ Len(chkWarnings[1]) = 2
    /\ chkWarnings[1][1].ingredient = <<"a">>
    /\ chkWarnings[1][2].ingredient = <<"a">>


---------------------------------------------------------------------------
(* Stored recipes: well-formedness *)

NonEmptyStrings(strings) ==
    /\ Len(strings) >= 1
    /\ \A i \in 1..Len(strings) : Len(strings[i]) >= 1

WellFormed(recipe) ==
    /\ Len(recipe.title) >= 1
    /\ Len(recipe.title) <= MaxTitleLength
    /\ NonEmptyStrings(recipe.ingredients)
    /\ NonEmptyStrings(recipe.preparation_steps)
    /\ recipe.source \in Sources

\* C23: in every state reached through the create, update and delete routes
\* every stored recipe has a title of 1 to 255 characters, at least one
\* ingredient and one preparation step, none of them empty, and a source
\* that is ai or manual.
C23_StoredWellFormed ==
    \A i \in 1..Len(MOCK_RECIPES) : WellFormed(MOCK_RECIPES[i])

\* a recipe posted with a padded title is stored trimmed and has then been
\* updated through the route
C23_Witness ==
    /\ res.op = "PATCH /api/recipes/:id"
    /\ res.id = IdOf(InitialCounter)
    /\ res.result.status = 200
    /\ res.body[1].preparation_steps = Some(NewSteps)
    /\ Len(MOCK_RECIPES) = Len(SeedRecipes) + 1
    /\ MOCK_RECIPES[Len(MOCK_RECIPES)].title = Str("b")
    /\ MOCK_RECIPES[Len(MOCK_RECIPES)].updated_at
          > MOCK_RECIPES[Len(MOCK_RECIPES)].created_at


---------------------------------------------------------------------------
(* Concurrent calls on the mock store.  updateRecipe and deleteRecipe      *)
(* start with "await new Promise((resolve) => setTimeout(resolve, ..))"    *)
(* and read nothing of the store before it; the rest of the body has no    *)
(* await, so the event loop runs it without interruption.  A call is       *)
(* pending from the moment it is made until its timer fires; the timers    *)
(* of pending calls may fire in any order.                                 *)

\* number of calls made in one exploration
MaxCalls == 3

NoCommand ==
    [title |-> Null, ingredients |-> Null, preparation_steps |-> Null]

\* mutant: the recipe read when the call was made is merged and written
resumeUpdate_stale(store, snapshot, call, now) ==
    LET recipeIndex == findIndex(store, call.id, call.userId)
        staleIndex == findIndex(snapshot, call.id, call.userId)
    IN IF recipeIndex = 0 \/ staleIndex = 0
       THEN [store |-> store, result |-> Null]
       ELSE LET r == updateRecipe(snapshot, call.id, call.userId,
                                  call.command, now)
            IN [store |-> [store EXCEPT ![recipeIndex] = r.result[1]],
                result |-> r.result]

\* mutant: an update is refused when the recipe has been written since the
\* call was made
resumeUpdate_optimistic(store, snapshot, call, now) ==
    LET recipeIndex == findIndex(store, call.id, call.userId)
        staleIndex == findIndex(snapshot, call.id, call.userId)
    IN IF recipeIndex = 0 \/ staleIndex = 0
          \/ store[recipeIndex].updated_at # snapshot[staleIndex].updated_at
       THEN [store |-> store, result |-> Null]
       ELSE updateRecipe(store, call.id, call.userId, call.command, now)

\* updateRecipe from its timer on: findIndex, merge and write act on the
\* store as it is then; snapshot, the store when the call was made, is
\* not used
resumeUpdate(store, snapshot, call, now) ==
    updateRecipe(store, call.id, call.userId, call.command, now)

\* mutant: the index found when the call was made is spliced
resumeDelete_stale(store, snapshot, call) ==
    LET recipeIndex == findIndex(snapshot, call.id, call.userId)
    IN IF recipeIndex = 0 \/ recipeIndex > Len(store)
       THEN [store |-> store, result |-> FALSE]
       ELSE [store |-> splice1(store, recipeIndex), result |-> TRUE]

\* deleteRecipe from its timer on
resumeDelete(store, snapshot, call) ==
    deleteRecipe(store, call.id, call.userId)

\* the calls made concurrently: updates of the second seed recipe by its
\* owner, deletes of the first two by their owner and by the other user
ConcurrentCalls ==
    {[op |-> "update", id |-> IdOf(2), userId |-> DEFAULT_USER_ID,
      command |-> c] :
        c \in {[NoCommand EXCEPT !.title = Some(Str("a"))],
               [NoCommand EXCEPT !.title = Some(Str("b"))],
               [NoCommand EXCEPT !.ingredients = Some(NewIngredients)],
               [NoCommand EXCEPT !.preparation_steps = Some(NewSteps)]}}
    \cup {[op |-> "delete", id |-> IdOf(n), userId |-> DEFAULT_USER_ID,
           command |-> NoCommand] : n \in 1..2}
    \cup {[op |-> "delete", id |-> IdOf(2), userId |-> OTHER_USER_ID,
           command |-> NoCommand]}

\* the call is made: it runs up to its await
BeginCall(call) ==
    /\ nOps < MaxCalls
    /\ pending' = Append(pending,
                         [call |-> call, n |-> nOps + 1,
                          snapshot |-> MOCK_RECIPES])
    /\ nOps' = nOps + 1
    /\ UNCHANGED <<MOCK_RECIPES, mockRecipeCounter, clock, profiles, res,
                   chkVars, done>>

\* the timer of the i-th pending call fires: the call runs to its return
ResumeCall(i) ==
    LET p == pending[i]
        r == IF p.call.op = "update"
             THEN resumeUpdate(MOCK_RECIPES, p.snapshot, p.call, clock)
             ELSE resumeDelete(MOCK_RECIPES, p.snapshot, p.call)
    IN /\ MOCK_RECIPES' = r.store
       /\ res' = [op |-> p.call.op, userId |-> p.call.userId,
                  id |-> p.call.id, command |-> p.call.command,
                  result |-> r.result]
       /\ done' = Append(done,
                         [call |-> p.call, n |-> p.n, result |-> r.result,
                          at |-> clock,
                          waiting |-> {pending[k].n :
                                          k \in (1..Len(pending)) \ {i}}])
       /\ pending' = [k \in 1..(Len(pending) - 1) |->
                         IF k < i THEN pending[k] ELSE pending[k + 1]]
       /\ UNCHANGED <<mockRecipeCounter, clock, profiles, nOps, chkVars>>

Begin == \E call \in ConcurrentCalls : BeginCall(call)

Resume == \E i \in 1..Len(pending) : ResumeCall(i)

NextConcurrent == Begin \/ Resume \/ Tick

ConcurrentSpec == Init /\ [][NextConcurrent]_vars


---------------------------------------------------------------------------
(* Concurrent calls: properties *)

UpdatableFields == {"title", "ingredients", "preparation_steps"}

\* the returned updates of the owner's recipe, as positions in done
UpdatesOf(id, userId) ==
    {k \in 1..Len(done) : /\ done[k].call.op = "update"
                          /\ done[k].call.id = id
                          /\ done[k].call.userId = userId}

Supplies(k) == {f \in UpdatableFields : done[k].call.command[f] # Null}

\* the i-th and j-th returned calls were pending at the same time
Overlapped(i, j) ==
    \/ i < j /\ done[j].n \in done[i].waiting
    \/ j < i /\ done[i].n \in done[j].waiting

StoredAt(id, userId) ==
    {x \in 1..Len(MOCK_RECIPES) : /\ MOCK_RECIPES[x].id = id
                                  /\ MOCK_RECIPES[x].user_id = userId}

\* C24: when two updates of the same recipe that supply a common field were
\* pending at the same time and have both returned, both returned the
\* recipe (no error, no "not found"), and if the later of them is the last
\* update of the recipe, the stored field is the value it supplied,
\* updated_at is the time of its return and the recipe it returned is the
\* stored one.
C24_LastWriteWins ==
    \A x \in StoredAt(IdOf(2), DEFAULT_USER_ID) :
    \A i, j \in UpdatesOf(IdOf(2), DEFAULT_USER_ID) :
        (i < j /\ Overlapped(i, j) /\ Supplies(i) \cap Supplies(j) # {})
        => /\ done[i].result # Null
           /\ done[j].result # Null
           /\ (\A k \in UpdatesOf(IdOf(2), DEFAULT_USER_ID) : k <= j)
                 => /\ \A f \in Supplies(j) :
                          MOCK_RECIPES[x][f] = done[j].call.command[f][1]
                    /\ MOCK_RECIPES[x].updated_at = done[j].at
                    /\ done[j].result = Some(MOCK_RECIPES[x])

\* two title updates were pending together; the one called first returned
\* last, a millisecond after the other
C24_Witness ==
    /\ Len(done) = 2
    /\ pending = <<>>
    /\ done[1].call.op = "update" /\ done[2].call.op = "update"
    /\ done[1].call.command.title = Some(Str("b"))
    /\ done[2].call.command.title = Some(Str("a"))
    /\ done[2].n < done[1].n
    /\ done[2].n \in done[1].waiting
    /\ done[1].at < done[2].at
    /\ MOCK_RECIPES[2].title = Str("a")

\* C27: when two updates of the same recipe that supply disjoint sets of
\* fields were pending at the same time and have both returned, every
\* field either of them supplied, and that no later update supplied again,
\* has the supplied value in the stored recipe: neither overwrites the
\* other's field with a value read earlier.
C27_NoLostUpdate ==
    \A x \in StoredAt(IdOf(2), DEFAULT_USER_ID) :
    \A i, j \in UpdatesOf(IdOf(2), DEFAULT_USER_ID) :
        (i # j /\ Overlapped(i, j) /\ Supplies(i) \cap Supplies(j) = {})
        => /\ done[i].result # Null
           /\ \A f \in Supplies(i) :
                 (\A k \in UpdatesOf(IdOf(2), DEFAULT_USER_ID) :
                     k > i => f \notin Supplies(k))
                 => MOCK_RECIPES[x][f] = done[i].call.command[f][1]

\* a title update and an ingredients update were pending together and both
\* values are stored
C27_Witness ==
    /\ Len(done) = 2
    /\ done[1].call.op = "update" /\ done[2].call.op = "update"
    /\ done[1].call.command.title = Some(Str("b"))
    /\ done[2].call.command.ingredients = Some(NewIngredients)
    /\ done[2].n \in done[1].waiting
    /\ MOCK_RECIPES[2].title = Str("b")
    /\ MOCK_RECIPES[2].ingredients = NewIngredients
    /\ SeedRecipes[2].title # Str("b")
    /\ SeedRecipes[2].ingredients # NewIngredients

\* the returned deletes of the recipe by the user, as positions in done
DeletesOf(id, userId) ==
    {k \in 1..Len(done) : /\ done[k].call.op = "delete"
                          /\ done[k].call.id = id
                          /\ done[k].call.userId = userId}

Succeeded(D) == {k \in D : done[k].result = TRUE}

\* the seed recipes that a returned delete of their owner has named
DeletedSeeds ==
    {s \in 1..Len(SeedRecipes) :
        DeletesOf(SeedRecipes[s].id, SeedRecipes[s].user_id) # {}}

\* C28: of the returned delete calls of one stored recipe by its owner,
\* however they overlapped, exactly one returned true, the first to return,
\* and the others false; a delete by another user returned false; the
\* stored recipes are the initial ones less those deleted by their owner,
\* so each such recipe is removed once and no other recipe is removed.
C28_ConcurrentDeletes ==
    /\ \A s \in DeletedSeeds :
          LET D == DeletesOf(SeedRecipes[s].id, SeedRecipes[s].user_id)
          IN Succeeded(D) = {Min(D)}
    /\ Succeeded(DeletesOf(IdOf(2), OTHER_USER_ID)) = {}
    /\ Len(MOCK_RECIPES) = Len(SeedRecipes) - Cardinality(DeletedSeeds)
    /\ {MOCK_RECIPES[x].id : x \in 1..Len(MOCK_RECIPES)}
          = {SeedRecipes[s].id : s \in (1..Len(SeedRecipes)) \ DeletedSeeds}

\* three deletes were pending together, two of them of the same recipe
C28_Witness ==
    /\ Len(done) = 3
    /\ \A k \in 1..3 : done[k].call.op = "delete"
                       /\ done[k].call.userId = DEFAULT_USER_ID
    /\ done[1].call.id = IdOf(1)
    /\ done[2].call.id = IdOf(2)
    /\ done[3].call.id = IdOf(2)
    /\ Cardinality(done[1].waiting) = 2
    /\ done[2].result = TRUE
    /\ done[3].result = FALSE
    /\ Len(MOCK_RECIPES) = 1


---------------------------------------------------------------------------
(* Generate: invocations of the adapter *)

\* C25: within one generate request aiService.generateRecipe is invoked at
\* most once; when that invocation fails the request is answered with the
\* failure (503) after this one invocation, and a request that is rejected
\* before the service call invokes it not at all.
C25_NoRetry ==
    res.op = "generate" =>
        /\ Len(res.calls) <= 1
        /\ (res.adapterThrows /\ res.result.status # 400)
              => (Len(res.calls) = 1 /\ res.result.status = 503)
        /\ res.result.status = 400 => res.calls = <<>>

\* a failing generation of four ingredients has been answered
C25_Witness ==
    /\ res.op = "generate"
    /\ res.adapterThrows
    /\ res.body # Null
    /\ Len(res.body[1].ingredients) = 4
    /\ Len(res.calls) = 1
    /\ res.result.status = 503

\* C30 as stated: every ingredient handed to aiService.generateRecipe is
\* non-empty, so the adapter gets at least 3 usable ingredients.
C30_DispatchedNonEmpty ==
    res.op = "generate" =>
        \A c \in 1..Len(res.calls) :
            /\ Len(res.calls[c]) >= MinGenerateIngredients
            /\ \A i \in 1..Len(res.calls[c]) : res.calls[c][i] # <<>>


---------------------------------------------------------------------------
(* Many recipes created after start-up, each then fetched by its id *)

\* number of recipes created after start-up
MaxCreated == 7

ManyBodies ==
    {Some([title |-> <<" ", "b", " ">>, ingredients |-> NewIngredients,
           preparation_steps |-> NewSteps, source |-> "manual"])}

\* POST /api/recipes, once more
PostAnother(body) ==
    /\ nOps < MaxCreated
    /\ \E t2 \in {clock, clock + 1} :
          /\ t2 <= MaxClock
          /\ LET r == POST_recipes(MOCK_RECIPES, mockRecipeCounter, body,
                                   clock, t2)
             IN /\ MOCK_RECIPES' = r.store
                /\ mockRecipeCounter' = r.counter
                /\ res' = [op |-> "POST /api/recipes", body |-> body,
                           calls |-> r.calls, result |-> r.response]
                /\ clock' = IF r.calls = <<>> THEN clock ELSE t2
    /\ nOps' = nOps + 1
    /\ UNCHANGED <<profiles, chkVars, asyncVars>>

PostMany == \E body \in ManyBodies : PostAnother(body)

\* GET /api/recipes/:id for the id of a stored recipe
GetStored == \E i \in 1..Len(MOCK_RECIPES) : GetRecipe(MOCK_RECIPES[i].id)

NextMany == PostMany \/ GetStored \/ Tick

ManySpec == Init /\ [][NextMany]_vars

TitleOnly ==
    Some([title |-> Some(Str("b")), ingredients |-> Null,
          preparation_steps |-> Null, source |-> Null])

\* C26 as stated: however many recipes have been created since start-up,
\* the id of every stored recipe of the caller is accepted by
\* uuidParamSchema, and the recipe is fetched, updated and deleted (each
\* answered 200) through GET, PATCH and DELETE /api/recipes/:id.
C26_CreatedStayAddressable ==
    \A i \in 1..Len(MOCK_RECIPES) :
        LET id == MOCK_RECIPES[i].id
        IN MOCK_RECIPES[i].user_id = DEFAULT_USER_ID =>
              /\ uuidParamSchema(id).success
              /\ GET_id(MOCK_RECIPES, id).response.status = 200
              /\ PATCH_id(MOCK_RECIPES, id, TitleOnly, clock)
                    .response.status = 200
              /\ DELETE_id(MOCK_RECIPES, id).response.status = 200


---------------------------------------------------------------------------
(* Frame of the store operations *)

\* the store without the recipe of that id and owner, order kept
Without(store, id, userId) ==
    SelectSeq(store, LAMBDA r : ~(r.id = id /\ r.user_id = userId))

\* every update of any id by any user leaves the number and order of the
\* stored recipes, and every recipe of another id or owner, as they are
UpdateFrame ==
    \A id \in Ids, userId \in Users, command \in UpdateCommands :
        LET after == updateRecipe(MOCK_RECIPES, id, userId, command,
                                  clock).store
        IN /\ Len(after) = Len(MOCK_RECIPES)
           /\ \A i \in 1..Len(after) :
                 (MOCK_RECIPES[i].id # id \/ MOCK_RECIPES[i].user_id # userId)
                    => after[i] = MOCK_RECIPES[i]

\* C29: getRecipes leaves the store as it is, order included (and
\* getRecipeById, a lookup that returns the stored recipe, writes nothing);
\* createRecipe leaves the stored recipes in place and appends the one it
\* returns; deleteRecipe(id, owner) and updateRecipe(id, owner, ...) leave
\* every stored recipe of another id or owner unchanged in all fields and
\* in its order.
C29_StoreFrame ==
    [][/\ res'.op = "list" =>
             /\ MOCK_RECIPES' = MOCK_RECIPES
             /\ mockRecipeCounter' = mockRecipeCounter
             /\ UpdateFrame
       /\ res'.op = "create" =>
             /\ Len(MOCK_RECIPES') = Len(MOCK_RECIPES) + 1
             /\ SubSeq(MOCK_RECIPES', 1, Len(MOCK_RECIPES)) = MOCK_RECIPES
             /\ MOCK_RECIPES'[Len(MOCK_RECIPES')] = res'.result
       /\ res'.op = "delete" =>
             \E id \in Ids, userId \in Users :
                 /\ res'.id = id
                 /\ res'.userId = userId
                 /\ MOCK_RECIPES' = Without(MOCK_RECIPES, id, userId)
                 /\ SelectSeq(MOCK_RECIPES', LAMBDA r : r.id # id)
                       = SelectSeq(MOCK_RECIPES, LAMBDA r : r.id # id)
       /\ res'.op \notin {"list", "create", "delete"} =>
             MOCK_RECIPES' = MOCK_RECIPES]_vars

\* the owner's five recipes, stored oldest first, have been listed newest
\* first: the page returned has another order than the store, which is
\* as it was
C29_Witness ==
    /\ res.op = "list"
    /\ res.userId = DEFAULT_USER_ID
    /\ res.params.sort = "undefined"
    /\ res.params.page = Some(1)
    /\ res.params.limit = Some(2)
    /\ Len(MOCK_RECIPES) = 5
    /\ res.result.recipes = <<MOCK_RECIPES[5], MOCK_RECIPES[4]>>
    /\ MOCK_RECIPES[1] = SeedRecipes[1]

=============================================================================
